---- MODULE Spec2Model ----
(***************************************************************************)
(* A model of the KDE Neon ZFS installer (src/main.py and                  *)
(* src/neoninstall/*.py).  The installer is one sequential process: main   *)
(* calls its nine steps in order, every step shells out to system tools    *)
(* and asks the operator questions.  The model follows the code command by *)
(* command: every external command is one step whose exit status is drawn  *)
(* nondeterministically, every operator prompt is one step whose answer is *)
(* drawn from the answers the prompt can give.                             *)
(***************************************************************************)
EXTENDS Integers, Sequences, FiniteSets

VARIABLES
    pc,               \* position of the process in main and its callees
    disks,            \* main.disks / the disks argument: selected disk paths
    disks_with_fs,    \* select_disks.disks_with_filesystems
    pool_types,       \* _get_pool_configuration.pool_types (values offered)
    pool_type,        \* the layout answered by the prompt
    pool_name,        \* the pool name answered by the prompt
    idx,              \* index of the current disk in a per-disk loop
    attempt,          \* _prepare_disk_partitions: poll attempts made so far
    efi_partition,    \* _prepare_disk_partitions.efi_partition
    pool_create_cmd,  \* create_zfs_pool.pool_create_cmd
    cfg_success,      \* configure_pool_options.success
    ret,              \* what create_zfs_pool returned to main
    last,             \* the command the latest step ran, with its outcome
    out,              \* the messages the latest step printed
    host,             \* the machine: partition tables, filesystems, pools
    steps,            \* the steps main has invoked, in order
    exit_code         \* main's return value, NoExit while it runs

vars == << pc, disks, disks_with_fs, pool_types, pool_type, pool_name, idx,
           attempt, efi_partition, pool_create_cmd, cfg_success, ret, last,
           out, host, steps, exit_code >>

(***************************************************************************)
(* Bounds of the model.                                                    *)
(***************************************************************************)
\* NVMe disks present on the machine in a run of main.
NumDisks == 3
\* Largest disk count handed to the Pool Planner's pure functions.
MaxDiskCount == 5
\* Largest exit status of a child process of the command runner.
MaxExitStatus == 2
\* Most entries of /dev handed to the Disk Inventory's listing.
MaxListing == 3
\* Most lines of lsblk output, and most partitions of a device in its JSON
\* output, handed to the filesystem queries.
MaxLines == 2
MaxChildren == 2

(***************************************************************************)
(* Values.                                                                 *)
(***************************************************************************)
\* Python's None, as returned by a questionary prompt the operator cancels.
None == "<None>"
\* main has not returned yet: no exit status.
NoExit == 0 - 1
\* create_zfs_pool has not returned yet.
NoReturn == << >>

DISK_PATH_PREFIX == "/dev/"
NVME_PREFIX == "nvme"

Digit(i) == << "0", "1", "2", "3", "4", "5", "6", "7", "8", "9" >>[i + 1]

\* The device node of controller i, namespace 1, as f"{DISK_PATH_PREFIX}{device}".
DiskPath(i) == DISK_PATH_PREFIX \o NVME_PREFIX \o Digit(i) \o "n1"

\* The n disks /dev/nvme0n1 .. in the natural order of the enumeration.
Devices(n) == [i \in 1..n |-> DiskPath(i - 1)]

Range(s) == {s[i] : i \in 1..Len(s)}

\* The sub-sequence of s at the positions of S, order kept.
RECURSIVE Pick(_, _, _)
Pick(s, S, i) ==
    IF i > Len(s) THEN << >>
    ELSE IF i \in S THEN << s[i] >> \o Pick(s, S, i + 1)
    ELSE Pick(s, S, i + 1)

\* What a checkbox prompt over choices s can return: the ticked values, in the
\* order of the choices.
Selections(s) == {Pick(s, S, 1) : S \in SUBSET (1..Len(s))}

(***************************************************************************)
(* Pool Planner: the pure functions.                                       *)
(***************************************************************************)
\* list.insert(i, x) for 0 <= i <= len.
Insert(s, i, x) == SubSeq(s, 1, i) \o << x >> \o SubSeq(s, i + 1, Len(s))

\* _get_available_pool_types: the "value" of every choice, in choice order.
\* (The display names carry no logic and are left out.)
AvailablePoolTypes_MirrorForOne(disk_count) ==
    IF disk_count <= 2
    THEN << "mirror", "single" >>
    ELSE IF disk_count >= 4
         THEN << "raidz1", "raidz2", "mirror", "single" >>
         ELSE << "raidz1", "mirror", "single" >>

AvailablePoolTypes(disk_count) ==
    IF disk_count = 1
    THEN << "single" >>
    ELSE IF disk_count = 2
         THEN << "mirror", "single" >>
         ELSE LET base == << "raidz1", "mirror", "single" >>
              IN  IF disk_count >= 4 THEN Insert(base, 1, "raidz2") ELSE base

\* create_zfs_pool: zfs_partitions = [f"{disk}2" for disk in disks]
ZfsPartitions_PSuffix(ds) == [i \in 1..Len(ds) |-> ds[i] \o "p2"]

ZfsPartitions(ds) == [i \in 1..Len(ds) |-> ds[i] \o "2"]

\* The tuning options every pool is created with.
PoolOptions_Swapped ==
    << "-o", "ashift=12",
       "-o", "compression=zstd",
       "-o", "acltype=posixacl",
       "-o", "xattr=sa",
       "-o", "dnodesize=auto",
       "-o", "atime=off",
       "-O", "canmount=off",
       "-O", "mountpoint=none",
       "-O", "normalization=formD" >>

PoolOptions ==
    << "-o", "ashift=12",
       "-o", "compression=zstd",
       "-o", "xattr=sa",
       "-o", "acltype=posixacl",
       "-o", "dnodesize=auto",
       "-o", "atime=off",
       "-O", "canmount=off",
       "-O", "mountpoint=none",
       "-O", "normalization=formD" >>

\* _prepare_disk_partitions: efi_partition = f"{disks[0]}1"
EfiPartition_LastDisk(ds) == ds[Len(ds)] \o "1"

EfiPartition(ds) == ds[1] \o "1"

\* The pool name and virtual devices of the command: the if/elif chain.
VdevArgs_Raidz1Keyword(ptype, pname, ds, zfs_partitions) ==
    IF ptype = "single" THEN << pname, zfs_partitions[1] >>
    ELSE IF ptype = "mirror" THEN << pname, "mirror" >> \o zfs_partitions
    ELSE IF ptype = "raidz1" THEN << pname, "raidz1" >> \o zfs_partitions
    ELSE IF ptype = "raidz2" THEN << pname, "raidz2" >> \o zfs_partitions
    ELSE << >>

VdevArgs(ptype, pname, ds, zfs_partitions) ==
    IF ptype = "single"
    THEN IF Len(ds) = 1
         THEN << pname, zfs_partitions[1] >>
         ELSE << pname, zfs_partitions[1] >>
    ELSE IF ptype = "mirror" THEN << pname, "mirror" >> \o zfs_partitions
    ELSE IF ptype = "raidz1" THEN << pname, "raidz" >> \o zfs_partitions
    ELSE IF ptype = "raidz2" THEN << pname, "raidz2" >> \o zfs_partitions
    ELSE << >>

WARN_FIRST_DISK == "Warning: Only using the first disk for the ZFS pool."

\* What _build_pool_create_command prints.
BuildWarnings_Always(ptype, ds) ==
    IF ptype = "single" THEN << WARN_FIRST_DISK >> ELSE << >>

BuildWarnings(ptype, ds) ==
    IF ptype = "single" /\ Len(ds) # 1 THEN << WARN_FIRST_DISK >> ELSE << >>

\* _build_pool_create_command: the argv it returns.
BuildPoolCreateCommand(ptype, pname, ds, zfs_partitions) ==
    << "zpool", "create", "-f" >>
        \o VdevArgs(ptype, pname, ds, zfs_partitions)
        \o PoolOptions

PoolLayouts == {"single", "mirror", "raidz1", "raidz2"}
PoolNames == {"neonpool"}

(***************************************************************************)
(* The machine and the commands run on it.                                 *)
(***************************************************************************)
\* A variable that has not been assigned yet.
Unset == "<unset>"

\* A command as run: the function that ran it, its argv and whether the
\* child exited with status zero.  The os.path.exists probes of
\* _prepare_disk_partitions are recorded the same way (ok: the node exists).
Entry(fn, argv, ok) == [fn |-> fn, argv |-> argv, ok |-> ok]

\* The latest step ran no command.
NoCommand == Entry("", << >>, TRUE)

CmdWipefs(disk) == << "wipefs", "--all", disk >>
CmdZap(disk) == << "sgdisk", "--zap-all", disk >>
CmdNewEfi(disk) ==
    << "sgdisk", "--new=1:0:+1024M", "--typecode=1:EF00", "--change-name=1:EFI", disk >>
CmdNewZfs(disk) ==
    << "sgdisk", "--new=2:0:0", "--typecode=2:BF01", "--change-name=2:ZFS", disk >>
CmdPartprobe(disk) == << "partprobe", disk >>
CmdBlockdev(disk) == << "blockdev", "--rereadpt", disk >>
CmdSync == << "sync" >>
CmdMkfs(part) == << "mkfs.fat", "-F32", "-n", "EFI", part >>
CmdAutotrim(pname) == << "zpool", "set", "autotrim=on", pname >>
CmdEnableTimer == << "systemctl", "enable", "zfs-trim.timer" >>
ProbeExists(path) == << "os.path.exists", path >>

\* The partition table of a disk: what was there before the installer ran,
\* an empty GPT, the EFI partition alone, the EFI and the ZFS partition.
TableStates == {"orig", "blank", "efi", "efi+zfs"}

AllDisks == Range(Devices(NumDisks))

HostInit ==
    [ table       |-> [d \in AllDisks |-> "orig"],
      formatted   |-> {},
      pools       |-> {},
      autotrim    |-> {},
      files       |-> {},
      trim_timer  |-> FALSE,
      mounts      |-> {} ]

\* What a command that exited with status zero has done to the machine.
Effect(h, argv) ==
    IF argv = CmdZap(argv[Len(argv)])
    THEN [h EXCEPT !.table[argv[Len(argv)]] = "blank"]
    ELSE IF argv = CmdNewEfi(argv[Len(argv)])
    THEN [h EXCEPT !.table[argv[Len(argv)]] = "efi"]
    ELSE IF argv = CmdNewZfs(argv[Len(argv)])
    THEN [h EXCEPT !.table[argv[Len(argv)]] = "efi+zfs"]
    ELSE IF argv = CmdMkfs(argv[Len(argv)])
    THEN [h EXCEPT !.formatted = @ \cup {argv[Len(argv)]}]
    ELSE IF Len(argv) > 3 /\ SubSeq(argv, 1, 3) = << "zpool", "create", "-f" >>
    THEN [h EXCEPT !.pools = @ \cup {argv[4]}]
    ELSE IF argv = CmdAutotrim(argv[Len(argv)])
    THEN [h EXCEPT !.autotrim = @ \cup {argv[Len(argv)]}]
    ELSE IF argv = CmdEnableTimer
    THEN [h EXCEPT !.trim_timer = TRUE]
    ELSE h

\* run_command(argv) by function fn with outcome ok, on the pair (last, host).
Exec(st, fn, argv, ok) ==
    [ last |-> Entry(fn, argv, ok),
      host |-> IF ok THEN Effect(st.host, argv) ELSE st.host ]

\* Several commands in a row, each exiting with status zero.
RECURSIVE ExecAll(_, _, _)
ExecAll(st, fn, cmds) ==
    IF cmds = << >> THEN st
    ELSE ExecAll(Exec(st, fn, Head(cmds), TRUE), fn, Tail(cmds))

\* The machine as it is, no command run yet in this step.
Now == [last |-> NoCommand, host |-> host]

(***************************************************************************)
(* main: the orchestrator.                                                 *)
(***************************************************************************)
\* The steps of main in the order of its code, and where each one starts.
StepOrder ==
    << "check_prerequisites", "select_disks", "create_zfs_pool",
       "create_zfs_datasets", "deploy_os", "configure_kde_neon", "setup_user",
       "configure_ssh", "configure_system_settings" >>

StepEntry ==
    << "main.prereq", "main.select", "pool.config", "main.datasets",
       "main.deploy", "main.kde", "main.user", "main.ssh", "main.system" >>

StepIndex(name) == CHOOSE i \in 1..Len(StepOrder) : StepOrder[i] = name

\* Where main goes when step `name` has returned ok (truthy) or not.
MainNext_IgnoreDatasets(name, ok) ==
    IF StepIndex(name) = Len(StepOrder) THEN "done"
    ELSE IF ok \/ name = "create_zfs_datasets" THEN StepEntry[StepIndex(name) + 1]
    ELSE "done"

MainNext(name, ok) ==
    IF ~ok THEN "done"
    ELSE IF StepIndex(name) = Len(StepOrder) THEN "done"
    ELSE StepEntry[StepIndex(name) + 1]

\* main's return value once step `name` has returned, NoExit if it goes on.
MainExit_StepNumber(name, ok) ==
    IF ~ok THEN StepIndex(name)
    ELSE IF StepIndex(name) = Len(StepOrder) THEN 0
    ELSE NoExit

MainExit(name, ok) ==
    IF ~ok THEN 1
    ELSE IF StepIndex(name) = Len(StepOrder) THEN 0
    ELSE NoExit

\* What main prints when step `name` has returned.
MainMessage(name, ok) ==
    IF ok
    THEN IF StepIndex(name) = Len(StepOrder)
         THEN << "Installation completed successfully!" >>
         ELSE << >>
    ELSE << << "Prerequisites not met. Exiting.",
               "No disks selected. Exiting.",
               "Failed to create ZFS pool. Exiting.",
               "Failed to create ZFS datasets. Exiting.",
               "Failed to deploy OS. Exiting.",
               "Failed to configure KDE Neon. Exiting.",
               "Failed to set up user. Exiting.",
               "Failed to configure SSH. Exiting.",
               "Failed to configure system settings. Exiting." >>[StepIndex(name)] >>

\* The record of a step main has invoked: running, ok, failed or raised.
StepStart(st, name) == Append(st, [name |-> name, result |-> "running"])
StepEnd(st, result) == [st EXCEPT ![Len(st)].result = result]
Result(ok) == IF ok THEN "ok" ELSE "failed"

\* Step `name` returns ok to main, having printed msgs; main tests the value
\* and either calls the next step or returns.
Return(name, ok, msgs) ==
    /\ pc' = MainNext(name, ok)
    /\ exit_code' = MainExit(name, ok)
    /\ out' = msgs \o MainMessage(name, ok)
    /\ steps' = IF MainNext(name, ok) = "done"
                THEN StepEnd(steps, Result(ok))
                ELSE StepStart(StepEnd(steps, Result(ok)),
                               StepOrder[StepIndex(name) + 1])

\* An exception nobody catches leaves main: the interpreter prints the
\* traceback and the process exits with status 1.
Raise(msgs) ==
    /\ pc' = "crashed"
    /\ exit_code' = 1
    /\ out' = msgs
    /\ steps' = StepEnd(steps, "raised")

\* The locals of create_zfs_pool and its callees that do not outlive the call.
pool_locals == << pool_types, pool_type, pool_create_cmd, cfg_success >>

NoPoolLocals ==
    /\ pool_types = << >>
    /\ pool_type = Unset
    /\ pool_create_cmd = << >>
    /\ cfg_success = TRUE

Idle ==
    /\ disks = << >>
    /\ disks_with_fs = << >>
    /\ NoPoolLocals
    /\ pool_name = Unset
    /\ idx = 0
    /\ attempt = 0
    /\ efi_partition = Unset
    /\ ret = NoReturn
    /\ last = NoCommand
    /\ out = << >>
    /\ host = HostInit
    /\ exit_code = NoExit

\* The state when main is entered.
Init ==
    /\ pc = "main.prereq"
    /\ steps = StepStart(<< >>, "check_prerequisites")
    /\ Idle

\* check_prerequisites: False unless the process is root and every required
\* command is there or could be installed; a platform other than Linux ends
\* the process with sys.exit(1).
CheckPrerequisites ==
    /\ pc = "main.prereq"
    /\ \E is_linux \in BOOLEAN, is_root \in BOOLEAN, missing \in BOOLEAN,
          installed \in BOOLEAN, verified \in BOOLEAN :
          IF ~is_linux
          THEN Raise(<< "Error: This script is only compatible with Linux." >>)
          ELSE Return("check_prerequisites",
                      is_root /\ (missing => (installed /\ verified)),
                      << >>)
    /\ last' = NoCommand
    /\ UNCHANGED << disks, disks_with_fs, pool_locals, pool_name, idx, attempt,
                    efi_partition, ret, host >>

(***************************************************************************)
(* select_disks.                                                           *)
(***************************************************************************)
\* select_disks returns selection (empty: failure) to main; its locals go.
SelectReturn(selection, msgs) ==
    /\ disks' = selection
    /\ disks_with_fs' = << >>
    /\ idx' = 0
    /\ Return("select_disks", selection # << >>, msgs)

\* The lsblk queries: of get_disk_filesystems and of get_filesystem_info.
CmdLsblkFs(disk) == << "lsblk", "-n", "-o", "NAME,FSTYPE", disk >>
CmdLsblkJson(disk) == << "lsblk", "-o", "NAME,KNAME,FSTYPE", "-J", "-p", disk >>

\* What get_available_nvme_disks returns: the n disks found in /dev, in
\* order, or [] when the listing raised OSError (os.listdir failing, or lsblk
\* that cannot be started).
ListedDevices_IgnoreError(enumerated, n) == Devices(n)

ListedDevices(enumerated, n) == IF enumerated THEN Devices(n) ELSE << >>

\* get_available_nvme_disks and prompt_for_disk_selection: the enumeration
\* fails (OSError) or lists the n disks of the machine, querying each with
\* lsblk (a query that exits non-zero is swallowed by the helper that ran it:
\* the disk is listed with what is known); the operator ticks some of the
\* disks or cancels the prompt (None).  Nothing listed or nothing selected:
\* select_disks returns [].
SelectDisks ==
    /\ pc = "main.select"
    /\ \E enumerated \in BOOLEAN, n \in 0..NumDisks, cancelled \in BOOLEAN,
          query_ok \in BOOLEAN :
       \E answer \in Selections(ListedDevices(enumerated, n)) :
          LET listed == ListedDevices(enumerated, n)
              msgs == IF ~enumerated THEN << "Error: Failed to list disks" >>
                      ELSE IF n = 0 THEN << "Error: No NVMe disks found." >>
                      ELSE << >>
          IN  /\ (~enumerated \/ n = 0) => (query_ok /\ ~cancelled)
              /\ last' = IF enumerated /\ n > 0
                         THEN Entry("get_disk_filesystems", CmdLsblkFs(DiskPath(n - 1)),
                                    query_ok)
                         ELSE NoCommand
              /\ IF listed = << >>
                 THEN SelectReturn(<< >>, msgs \o << "Error: No NVMe disks found." >>)
                 ELSE IF cancelled \/ answer = << >>
                 THEN SelectReturn(<< >>, msgs \o << "Available NVMe disks:",
                                                     "No disks selected." >>)
                 ELSE /\ disks' = answer
                      /\ pc' = "select.identify"
                      /\ out' = msgs \o << "Available NVMe disks:" >>
                      /\ UNCHANGED << disks_with_fs, idx, exit_code, steps >>
    /\ UNCHANGED << pool_locals, pool_name, attempt, efi_partition, ret, host >>

\* identify_disks_with_filesystems: what it can return for the disks given,
\* the ones whose query found a filesystem, in the order given.
DisksWithFs_AnyDisk(ds) == Selections(Devices(NumDisks))

DisksWithFs(ds) == Selections(ds)

\* identify_disks_with_filesystems: the selected disks on which lsblk reports
\* a filesystem, in selection order; a disk whose query fails counts as
\* having none.  None: select_disks returns the selection.
IdentifyDisksWithFilesystems ==
    /\ pc = "select.identify"
    /\ \E with_fs \in DisksWithFs(disks), query_ok \in BOOLEAN :
          /\ ~query_ok => disks[Len(disks)] \notin Range(with_fs)
          /\ last' = Entry("get_filesystem_info", CmdLsblkJson(disks[Len(disks)]),
                           query_ok)
          /\ IF with_fs = << >>
             THEN SelectReturn(disks, IF query_ok THEN << >>
                                      ELSE << "Warning: Failed to get filesystem info" >>)
             ELSE /\ disks_with_fs' = with_fs
                  /\ pc' = "select.confirm"
                  /\ out' = IF query_ok THEN << >>
                            ELSE << "Warning: Failed to get filesystem info" >>
                  /\ UNCHANGED << disks, idx, exit_code, steps >>
    /\ UNCHANGED << pool_locals, pool_name, attempt, efi_partition, ret, host >>

\* What the terminal shows of the confirmation prompt and its answer.
ConfirmEcho(confirmed) ==
    "Do you want to wipe these disks? [THIS WILL DESTROY ALL DATA] "
        \o (IF confirmed THEN "Yes" ELSE "No")

\* Where handle_existing_filesystems goes on the answer: wipe_disks, or
\* return False.
AfterConfirm_AlwaysWipe(confirmed) == "wipe.wipefs"

AfterConfirm(confirmed) == IF confirmed THEN "wipe.wipefs" ELSE "return"

\* handle_existing_filesystems: the filesystems of each disk are queried
\* again and shown, then the confirmation.  Declined (or cancelled): it
\* returns False and select_disks returns [].
HandleExistingFilesystems ==
    /\ pc = "select.confirm"
    /\ \E confirmed \in BOOLEAN :
          IF AfterConfirm(confirmed) = "wipe.wipefs"
          THEN /\ pc' = "wipe.wipefs"
               /\ idx' = 1
               /\ out' = << "Warning: The following disks have existing filesystems:",
                            ConfirmEcho(confirmed) >>
               /\ UNCHANGED << disks, disks_with_fs, exit_code, steps >>
          ELSE SelectReturn(<< >>,
                            << "Warning: The following disks have existing filesystems:",
                               ConfirmEcho(confirmed),
                               "Aborting installation." >>)
    /\ \E query_ok \in BOOLEAN :
          last' = Entry("get_filesystem_info",
                        CmdLsblkJson(disks_with_fs[Len(disks_with_fs)]), query_ok)
    /\ UNCHANGED << pool_locals, pool_name, attempt, efi_partition, ret, host >>

\* wipe_disks, disk idx: wipefs --all; a failure is printed and ignored.
WipeWipefs ==
    /\ pc = "wipe.wipefs"
    /\ \E ok \in BOOLEAN :
          LET st == Exec(Now, "wipe_disks", CmdWipefs(disks_with_fs[idx]), ok)
          IN  /\ last' = st.last
              /\ host' = st.host
              /\ out' = << "Wiping disk" >>
                            \o (IF ok THEN << >> ELSE << "Warning: Failed to run wipefs" >>)
    /\ pc' = "wipe.zap"
    /\ UNCHANGED << disks, disks_with_fs, pool_locals, pool_name, idx, attempt,
                    efi_partition, ret, steps, exit_code >>

\* Where wipe_disks goes after sgdisk --zap-all exited ok or not: on to sync,
\* or "return" (the except handler: return False).
AfterZap_GoOn(ok) == "wipe.sync"

AfterZap(ok) == IF ok THEN "wipe.sync" ELSE "return"

\* wipe_disks, disk idx: sgdisk --zap-all; a failure ends wipe_disks with
\* False, and select_disks returns [].
WipeZap ==
    /\ pc = "wipe.zap"
    /\ \E ok \in BOOLEAN :
          LET st == Exec(Now, "wipe_disks", CmdZap(disks_with_fs[idx]), ok)
          IN  /\ last' = st.last
              /\ host' = st.host
              /\ IF AfterZap(ok) = "wipe.sync"
                 THEN /\ pc' = "wipe.sync"
                      /\ out' = << >>
                      /\ UNCHANGED << disks, disks_with_fs, idx, exit_code, steps >>
                 ELSE SelectReturn(<< >>, << "Error: Failed to wipe disk" >>)
    /\ UNCHANGED << pool_locals, pool_name, attempt, efi_partition, ret >>

\* wipe_disks, disk idx: sync, then the next disk; after the last one
\* wipe_disks returns True and select_disks returns the selection.
WipeSync ==
    /\ pc = "wipe.sync"
    /\ \E ok \in BOOLEAN :
          LET st == Exec(Now, "wipe_disks", CmdSync, ok)
          IN  /\ last' = st.last
              /\ host' = st.host
              /\ IF ~ok
                 THEN SelectReturn(<< >>, << "Error: Failed to wipe disk" >>)
                 ELSE IF idx < Len(disks_with_fs)
                 THEN /\ idx' = idx + 1
                      /\ pc' = "wipe.wipefs"
                      /\ out' = << >>
                      /\ UNCHANGED << disks, disks_with_fs, exit_code, steps >>
                 ELSE SelectReturn(disks, << "Disks wiped successfully." >>)
    /\ UNCHANGED << pool_locals, pool_name, attempt, efi_partition, ret >>

(***************************************************************************)
(* create_zfs_pool.                                                        *)
(***************************************************************************)
\* Compensating commands create_zfs_pool runs on the paths where it returns
\* failure (the except handlers and the `return False, "", ""` lines): none.
CleanupOnFailure_Rollback(ds, pname) ==
    [i \in 1..Len(ds) |-> CmdZap(ds[i])]

CleanupOnFailure(ds, pname) == << >>

\* What the prompts of _get_pool_configuration can answer: one of the values
\* offered, or None when the operator cancels the prompt.
LayoutAnswers(offered) == Range(offered) \cup {None}
NameAnswers == PoolNames \cup {"", None}

\* _get_pool_configuration: the two prompts.  create_zfs_pool goes on to
\* _prepare_disk_partitions whatever they answer.
GetPoolConfiguration ==
    /\ pc = "pool.config"
    /\ pool_types' = AvailablePoolTypes(Len(disks))
    /\ \E ptype \in LayoutAnswers(AvailablePoolTypes(Len(disks))), pname \in NameAnswers :
          /\ pool_type' = ptype
          /\ pool_name' = pname
    /\ idx' = 1
    /\ pc' = "prep.wipefs"
    /\ last' = NoCommand
    /\ out' = << >>
    /\ UNCHANGED << disks, disks_with_fs, attempt, efi_partition, pool_create_cmd,
                    cfg_success, ret, host, steps, exit_code >>

\* create_zfs_pool returns result to main, the machine being st; its locals
\* and those of its callees go.
PoolReturn(st, result, msgs) ==
    /\ last' = st.last
    /\ host' = st.host
    /\ ret' = result
    /\ pool_types' = << >>
    /\ pool_type' = Unset
    /\ pool_name' = Unset
    /\ pool_create_cmd' = << >>
    /\ cfg_success' = TRUE
    /\ idx' = 0
    /\ attempt' = 0
    /\ efi_partition' = Unset
    /\ Return("create_zfs_pool", result[1], msgs)

\* create_zfs_pool returns failure to main: (False, "", "").
PoolFailure(st, msgs) ==
    PoolReturn(ExecAll(st, "create_zfs_pool", CleanupOnFailure(disks, pool_name)),
               << FALSE, "", "" >>, msgs)

\* The commands of the per-disk loop of _prepare_disk_partitions, by position.
PrepCommand(step, disk) ==
    CASE step = "prep.wipefs"    -> CmdWipefs(disk)
      [] step = "prep.zap"       -> CmdZap(disk)
      [] step = "prep.new1"      -> CmdNewEfi(disk)
      [] step = "prep.new2"      -> CmdNewZfs(disk)
      [] step = "prep.partprobe" -> CmdPartprobe(disk)
      [] step = "prep.blockdev"  -> CmdBlockdev(disk)
      [] step = "prep.sync"      -> CmdSync

\* Where the loop body goes after the command at `step` exited ok or not:
\* the next command, "next" (the next disk, or the wait for the EFI node
\* after the last disk) or "fail" (the except handler: return False, "").
PrepNext_IgnoreNewZfs(step, ok) ==
    CASE step = "prep.wipefs"    -> IF ok THEN "prep.zap" ELSE "fail"
      [] step = "prep.zap"       -> IF ok THEN "prep.new1" ELSE "fail"
      [] step = "prep.new1"      -> IF ok THEN "prep.new2" ELSE "fail"
      [] step = "prep.new2"      -> "prep.partprobe"
      [] step = "prep.partprobe" -> IF ok THEN "prep.sync" ELSE "prep.blockdev"
      [] step = "prep.blockdev"  -> "prep.sync"
      [] step = "prep.sync"      -> IF ok THEN "next" ELSE "fail"

PrepNext_RereadFatal(step, ok) ==
    CASE step = "prep.wipefs"    -> IF ok THEN "prep.zap" ELSE "fail"
      [] step = "prep.zap"       -> IF ok THEN "prep.new1" ELSE "fail"
      [] step = "prep.new1"      -> IF ok THEN "prep.new2" ELSE "fail"
      [] step = "prep.new2"      -> IF ok THEN "prep.partprobe" ELSE "fail"
      [] step = "prep.partprobe" -> IF ok THEN "prep.sync" ELSE "prep.blockdev"
      [] step = "prep.blockdev"  -> IF ok THEN "prep.sync" ELSE "fail"
      [] step = "prep.sync"      -> IF ok THEN "next" ELSE "fail"

PrepNext(step, ok) ==
    CASE step = "prep.wipefs"    -> IF ok THEN "prep.zap" ELSE "fail"
      [] step = "prep.zap"       -> IF ok THEN "prep.new1" ELSE "fail"
      [] step = "prep.new1"      -> IF ok THEN "prep.new2" ELSE "fail"
      [] step = "prep.new2"      -> IF ok THEN "prep.partprobe" ELSE "fail"
      [] step = "prep.partprobe" -> IF ok THEN "prep.sync" ELSE "prep.blockdev"
      [] step = "prep.blockdev"  -> "prep.sync"
      [] step = "prep.sync"      -> IF ok THEN "next" ELSE "fail"

\* What the loop body prints after the command at `step`.
PrepMessage(step, ok) ==
    IF PrepNext(step, ok) = "fail" THEN << "Error: Failed to create partitions" >>
    ELSE IF step = "prep.blockdev" /\ ~ok
    THEN << "Warning: Failed to reread partition table" >>
    ELSE << >>

\* One command of the loop body on disk idx.
PrepStep(step) ==
    /\ pc = step
    /\ \E ok \in BOOLEAN :
          LET st == Exec(Now, "_prepare_disk_partitions", PrepCommand(step, disks[idx]), ok)
              next == PrepNext(step, ok)
          IN  IF next = "fail"
              THEN PoolFailure(st, PrepMessage(step, ok))
              ELSE /\ last' = st.last
                   /\ host' = st.host
                   /\ out' = PrepMessage(step, ok)
                   /\ UNCHANGED << pool_locals, pool_name, ret, steps, exit_code >>
                   /\ IF next # "next"
                      THEN /\ pc' = next
                           /\ UNCHANGED << idx, attempt, efi_partition >>
                      ELSE IF idx < Len(disks)
                      THEN /\ pc' = "prep.wipefs"
                           /\ idx' = idx + 1
                           /\ UNCHANGED << attempt, efi_partition >>
                      ELSE /\ pc' = "prep.poll"
                           /\ idx' = 0
                           /\ attempt' = 0
                           /\ efi_partition' = EfiPartition(disks)
    /\ UNCHANGED << disks, disks_with_fs >>

PrepWipefs == PrepStep("prep.wipefs")
PrepZap == PrepStep("prep.zap")
PrepNewEfi == PrepStep("prep.new1")
PrepNewZfs == PrepStep("prep.new2")
PrepPartprobe == PrepStep("prep.partprobe")
PrepBlockdev == PrepStep("prep.blockdev")
PrepSync == PrepStep("prep.sync")

\* _prepare_disk_partitions: attempts of the loop that waits for the EFI node.
max_retries == 5

\* Where the wait loop goes after attempt number n + 1 found the node or not:
\* out of the loop (break, or range(max_retries) exhausted) or round again.
PollNext_OneMore(exists, n) ==
    IF exists \/ n + 1 >= max_retries + 1 THEN "prep.exists" ELSE "prep.poll"

PollNext(exists, n) ==
    IF exists \/ n + 1 >= max_retries THEN "prep.exists" ELSE "prep.poll"

\* One attempt of the wait loop: the node is there (break) or it is not (print,
\* sleep 2 s, next attempt); after max_retries attempts the loop ends.
PollEfiNode ==
    /\ pc = "prep.poll"
    /\ \E exists \in BOOLEAN :
          /\ last' = Entry("_prepare_disk_partitions", ProbeExists(efi_partition), exists)
          /\ pc' = PollNext(exists, attempt)
          /\ IF exists
             THEN /\ out' = << >>
                  /\ UNCHANGED attempt
             ELSE /\ attempt' = attempt + 1
                  /\ out' = << "Waiting for EFI partition to appear" >>
    /\ UNCHANGED << disks, disks_with_fs, pool_locals, pool_name, idx,
                    efi_partition, ret, host, steps, exit_code >>

\* Where _prepare_disk_partitions goes after the test that follows the loop
\* found the node or not: on to mkfs.fat, or "fail" (return False, "").
AfterProbe_AlwaysFormat(exists) == "prep.mkfs"

AfterProbe(exists) == IF exists THEN "prep.mkfs" ELSE "fail"

\* The test after the loop: no node, _prepare_disk_partitions returns
\* (False, "") and create_zfs_pool returns failure.
CheckEfiNode ==
    /\ pc = "prep.exists"
    /\ \E exists \in BOOLEAN :
          LET st == [Now EXCEPT !.last = Entry("_prepare_disk_partitions",
                                               ProbeExists(efi_partition), exists)]
          IN  IF AfterProbe(exists) = "prep.mkfs"
              THEN /\ last' = st.last
                   /\ pc' = "prep.mkfs"
                   /\ out' = << >>
                   /\ UNCHANGED << pool_locals, pool_name, idx, attempt,
                                   efi_partition, host, ret, steps, exit_code >>
              ELSE PoolFailure(st, << "Error: EFI partition was not created." >>)
    /\ UNCHANGED << disks, disks_with_fs >>

\* Where _prepare_disk_partitions goes after mkfs.fat exited ok or not: back
\* to create_zfs_pool with (True, efi_partition), or "fail" (return False, "").
AfterFormat_AlwaysGoOn(ok) == "pool.create"

AfterFormat(ok) == IF ok THEN "pool.create" ELSE "fail"

\* mkfs.fat on the EFI partition.  Formatted: _prepare_disk_partitions returns
\* (True, efi_partition) and create_zfs_pool builds the zpool create command.
FormatEfi ==
    /\ pc = "prep.mkfs"
    /\ \E ok \in BOOLEAN :
          LET st == Exec(Now, "_prepare_disk_partitions", CmdMkfs(efi_partition), ok)
          IN  IF AfterFormat(ok) = "pool.create"
              THEN /\ last' = st.last
                   /\ host' = st.host
                   /\ pool_create_cmd' =
                          BuildPoolCreateCommand(pool_type, pool_name, disks,
                                                 ZfsPartitions(disks))
                   /\ out' = BuildWarnings(pool_type, disks)
                   /\ pc' = "pool.create"
                   /\ attempt' = 0
                   /\ UNCHANGED << pool_types, pool_type, pool_name, cfg_success, idx,
                                   efi_partition, ret, steps, exit_code >>
              ELSE PoolFailure(st, << "Error: Failed to format EFI partition" >>)
    /\ UNCHANGED << disks, disks_with_fs >>

\* zpool create exits with status zero only when the command names a pool:
\* without a layout the argv holds options alone, and "" is no pool name.
ZpoolCreateOutcomes(ptype, pname) ==
    IF ptype \in PoolLayouts /\ pname # "" THEN BOOLEAN ELSE {FALSE}

\* create_zfs_pool: print the command (' '.join raises TypeError when the
\* argv holds None, which no handler catches) and run it.
ZpoolCreate ==
    /\ pc = "pool.create"
    /\ IF None \in Range(pool_create_cmd)
       THEN /\ Raise(<< "TypeError: sequence item: expected str instance, NoneType found" >>)
            /\ last' = NoCommand
            /\ UNCHANGED << pool_locals, pool_name, idx, attempt, efi_partition,
                            host, ret >>
       ELSE \E ok \in ZpoolCreateOutcomes(pool_type, pool_name) :
               LET st == Exec(Now, "create_zfs_pool", pool_create_cmd, ok)
               IN  IF ok
                   THEN /\ last' = st.last
                        /\ host' = st.host
                        /\ out' = << "Creating ZFS pool with command",
                                     "ZFS pool created successfully." >>
                        /\ pc' = "pool.autotrim"
                        /\ UNCHANGED << pool_locals, pool_name, idx, attempt,
                                        efi_partition, ret, steps, exit_code >>
                   ELSE PoolFailure(st, << "Creating ZFS pool with command",
                                           "Error: Failed to create ZFS pool" >>)
    /\ UNCHANGED << disks, disks_with_fs >>

\* configure_pool_options, first part: enable_pool_autotrim.
EnablePoolAutotrim ==
    /\ pc = "pool.autotrim"
    /\ \E ok \in BOOLEAN :
          LET st == Exec(Now, "enable_pool_autotrim", CmdAutotrim(pool_name), ok)
          IN  /\ last' = st.last
              /\ host' = st.host
              /\ cfg_success' = ok
              /\ out' = IF ok THEN << >>
                        ELSE << "Warning: Failed to enable TRIM",
                                "Warning: Failed to enable autotrim, but continuing." >>
    /\ pc' = "pool.trim"
    /\ UNCHANGED << disks, disks_with_fs, pool_types, pool_type, pool_name, idx,
                    attempt, efi_partition, pool_create_cmd, ret, steps, exit_code >>

TIMER_PATH == "/etc/systemd/system/zfs-trim.timer"
SERVICE_PATH == "/etc/systemd/system/zfs-trim.service"

\* What create_zfs_pool returns once the pool exists and
\* configure_pool_options has returned `configured`.
PoolResult(configured, pname, efi) ==
    IF ~configured THEN << FALSE, "", "" >> ELSE << TRUE, pname, efi >>

\* configure_pool_options: its `success` once both sub-steps have returned.
PoolOptionsSuccess_LastOnly(autotrim_ok, trim_ok) == trim_ok

PoolOptionsSuccess(autotrim_ok, trim_ok) == autotrim_ok /\ trim_ok

\* configure_pool_options, second part: _create_trim_service_files writes the
\* timer unit, writes the service unit and enables the timer; the first
\* failure (IOError, CalledProcessError) ends it with False.  Then
\* configure_pool_options returns and create_zfs_pool returns to main.
CreateTrimServiceFiles ==
    /\ pc = "pool.trim"
    /\ \E outcome \in {"ok", "timer_ioerror", "service_ioerror", "enable_failed"} :
          LET written == CASE outcome = "timer_ioerror" -> {}
                           [] outcome = "service_ioerror" -> {TIMER_PATH}
                           [] OTHER -> {TIMER_PATH, SERVICE_PATH}
              st0 == [Now EXCEPT !.host.files = @ \cup written]
              st == IF outcome \in {"ok", "enable_failed"}
                    THEN Exec(st0, "_create_trim_service_files", CmdEnableTimer,
                              outcome = "ok")
                    ELSE st0
              result == PoolResult(PoolOptionsSuccess(cfg_success, outcome = "ok"),
                                   pool_name, efi_partition)
              msgs == IF outcome = "ok" THEN << >>
                      ELSE << "Error: Failed to create TRIM service files",
                              "Warning: Failed to create TRIM service files, but continuing." >>
          IN  IF result[1]
              THEN PoolReturn(st, result, msgs)
              ELSE PoolFailure(st, msgs)
    /\ UNCHANGED << disks, disks_with_fs >>

(***************************************************************************)
(* The steps after the pool: each returns True or False to main, or raises  *)
(* an exception, which main does not catch.                                *)
(***************************************************************************)
LaterStep(name) ==
    /\ pc = StepEntry[StepIndex(name)]
    /\ \E outcome \in {"ok", "failed", "raised"} :
          IF outcome = "raised"
          THEN Raise(<< "Traceback (most recent call last):" >>)
          ELSE Return(name, outcome = "ok", << >>)
    /\ last' = NoCommand
    /\ UNCHANGED << disks, disks_with_fs, pool_locals, pool_name, idx, attempt,
                    efi_partition, ret, host >>

CreateZfsDatasets == LaterStep("create_zfs_datasets")

(***************************************************************************)
(* deploy_os, configure_kde_neon, setup_user, configure_ssh,               *)
(* configure_system_settings: the steps that bind-mount /dev, /proc and    *)
(* /sys under the new root.  The try block of a step is one action, where  *)
(* it stops being the outcome; the finally clause of the first four is one *)
(* action for each umount, the result of the try block pending: the place  *)
(* is FinallyPc(step, how), idx counts the umount commands and out keeps   *)
(* what the try block printed.                                             *)
(***************************************************************************)
\* How a step call ends for main: it returns True, returns False, or an
\* exception no handler of the step catches leaves it.
EndStep(name, how, msgs) ==
    IF how = "raised"
    THEN Raise(<< "Traceback (most recent call last):" >> \o msgs)
    ELSE Return(name, how = "ok", msgs)

\* root_path = f"/{pool_name}/ROOT"
Root(pname) == "/" \o pname \o "/ROOT"

MOUNT_POINTS == << "/dev", "/proc", "/sys" >>

\* The targets of the bind mounts, and those made when the first k of the
\* mount --bind commands exited with status zero.
BindTargets(pname) == {Root(pname) \o MOUNT_POINTS[i] : i \in 1..Len(MOUNT_POINTS)}
BindMounted(pname, k) == {Root(pname) \o MOUNT_POINTS[i] : i \in 1..k}

CmdUmount(target) == << "umount", target >>
CmdBind(pname, i) ==
    << "mount", "--bind", MOUNT_POINTS[i], Root(pname) \o MOUNT_POINTS[i] >>

\* The order of the cleanup loops: for mount in ["/sys", "/proc", "/dev"],
\* and reversed(MOUNT_POINTS) in unmount_virtual_filesystems.
CLEANUP_POINTS_MountOrder == << "/dev", "/proc", "/sys" >>

CLEANUP_POINTS == << "/sys", "/proc", "/dev" >>

\* How the try block of a step can end: return True, return False, or an
\* exception that no except clause of the step catches.
Hows == {"ok", "failed", "raised"}

\* The finally clause of step `name`, entered with `how` pending.
FinallyPc(name, how) == name \o ".finally." \o how

\* The try block of step `name` ends with `how`, having printed msgs and
\* tried the first `tried` bind mounts (the last of them exiting ok or not):
\* the finally clause is next.  last is the latest mount --bind of the block.
EnterFinally(name, how, msgs, tried, bind_ok) ==
    /\ pc' = FinallyPc(name, how)
    /\ idx' = 1
    /\ out' = msgs
    /\ last' = IF tried = 0 THEN NoCommand
               ELSE Entry(name, CmdBind(ret[2], tried), bind_ok)
    /\ UNCHANGED << steps, exit_code >>

\* One round of the cleanup loop of step `name`: umount of the next mount
\* point, exit status not checked (check=False) and any exception swallowed;
\* umount exits non-zero on a target that is not mounted, and may on one
\* that is.  After the last round the pending result goes to main.
FinallyUmount(name) ==
    /\ \E how \in Hows :
          /\ pc = FinallyPc(name, how)
          /\ \E ok \in BOOLEAN :
                LET target == Root(ret[2]) \o CLEANUP_POINTS[idx]
                IN  /\ ok => target \in host.mounts
                    /\ host' = [host EXCEPT !.mounts = IF ok THEN @ \ {target} ELSE @]
                    /\ last' = Entry(name, CmdUmount(target), ok)
                    /\ IF idx < Len(CLEANUP_POINTS)
                       THEN /\ idx' = idx + 1
                            /\ UNCHANGED << pc, out, steps, exit_code >>
                       ELSE /\ idx' = 0
                            /\ EndStep(name, how, out)
    /\ UNCHANGED << disks, disks_with_fs, pool_locals, pool_name, attempt,
                    efi_partition, ret >>

\* The cleanup loop: umount of /sys, /proc, /dev under the root, exit status
\* not checked.  The targets in `stuck` stay mounted.
Unmounted(mounts, pname, stuck) ==
    (mounts \ BindTargets(pname)) \cup (stuck \cap mounts)

\* deploy_os: where the call stops.  CalledProcessError is caught (return
\* False); the OSError of os.makedirs and the TypeError of
\* os.path.exists(None) after a cancelled path prompt are not.
DeployOutcomes ==
    { "ok", "zfs_mount_failed", "makedirs_oserror", "mount_efi_failed",
      "path_cancelled", "squashfs_missing", "unsquashfs_failed", "bind_failed",
      "bootloader_failed" }

DeployHow(outcome) ==
    IF outcome = "ok" THEN "ok"
    ELSE IF outcome \in {"makedirs_oserror", "path_cancelled"} THEN "raised"
    ELSE "failed"

DeployMessage(outcome, fstab_ok) ==
    CASE outcome = "ok" ->
            (IF fstab_ok THEN << >>
             ELSE << "Error: Failed to generate fstab",
                     "Warning: Failed to generate fstab, but continuing with installation." >>)
            \o << "OS deployed successfully." >>
      [] outcome \in {"zfs_mount_failed", "mount_efi_failed", "bind_failed"} ->
            << "Error: Failed to deploy OS" >>
      [] outcome = "squashfs_missing" ->
            << "Error: not found.", "Error: Failed to extract filesystem." >>
      [] outcome = "unsquashfs_failed" ->
            << "Error: Failed to extract filesystem.",
               "Error: Failed to extract filesystem." >>
      [] outcome = "bootloader_failed" ->
            << "Error: Failed to configure bootloader",
               "Error: Failed to configure bootloader." >>
      [] outcome = "makedirs_oserror" -> << "OSError" >>
      [] outcome = "path_cancelled" -> << "TypeError" >>

\* deploy_os(pool_name, efi_partition): the try block.
DeployOs ==
    /\ pc = "main.deploy"
    /\ \E outcome \in DeployOutcomes, k \in 1..Len(MOUNT_POINTS), fstab_ok \in BOOLEAN :
          LET pname == ret[2]
              efi_mounted ==
                  outcome \notin {"zfs_mount_failed", "makedirs_oserror", "mount_efi_failed"}
              tried == IF outcome \in {"ok", "bootloader_failed"} THEN Len(MOUNT_POINTS)
                       ELSE IF outcome = "bind_failed" THEN k
                       ELSE 0
              made == IF outcome = "bind_failed" THEN k - 1 ELSE tried
          IN  /\ outcome # "bind_failed" => k = 1
              /\ outcome # "ok" => fstab_ok
              /\ host' = [host EXCEPT !.mounts =
                              @ \cup BindMounted(pname, made)
                                \cup (IF efi_mounted THEN {Root(pname) \o "/boot/efi"}
                                      ELSE {})]
              /\ EnterFinally("deploy_os", DeployHow(outcome),
                              DeployMessage(outcome, fstab_ok), tried,
                              outcome # "bind_failed")
    /\ UNCHANGED << disks, disks_with_fs, pool_locals, pool_name, attempt,
                    efi_partition, ret >>

DeployFinally == FinallyUmount("deploy_os")

\* configure_kde_neon: where the call stops.  Only CalledProcessError is
\* caught; os.makedirs and open in add_kde_neon_repository and
\* configure_sddm_theme raise OSError.
KdeOutcomes ==
    { "ok", "repo_oserror", "bind_failed", "apt_update_failed",
      "sddm_install_failed", "theme_oserror", "kde_install_failed",
      "enable_sddm_failed" }

KdeHow(outcome) ==
    IF outcome = "ok" THEN "ok"
    ELSE IF outcome \in {"repo_oserror", "theme_oserror"} THEN "raised"
    ELSE "failed"

KdeMessage(outcome) ==
    IF outcome = "ok" THEN << "KDE Neon configured successfully." >>
    ELSE IF KdeHow(outcome) = "failed" THEN << "Error: Failed to configure KDE Neon" >>
    ELSE << "OSError" >>

\* configure_kde_neon(pool_name): the try block.
ConfigureKdeNeon ==
    /\ pc = "main.kde"
    /\ \E outcome \in KdeOutcomes, k \in 1..Len(MOUNT_POINTS) :
          LET pname == ret[2]
              tried == IF outcome = "repo_oserror" THEN 0
                       ELSE IF outcome = "bind_failed" THEN k
                       ELSE Len(MOUNT_POINTS)
              made == IF outcome = "bind_failed" THEN k - 1 ELSE tried
          IN  /\ outcome # "bind_failed" => k = 1
              /\ host' = [host EXCEPT !.mounts = @ \cup BindMounted(pname, made)]
              /\ EnterFinally("configure_kde_neon", KdeHow(outcome), KdeMessage(outcome),
                              tried, outcome # "bind_failed")
    /\ UNCHANGED << disks, disks_with_fs, pool_locals, pool_name, attempt,
                    efi_partition, ret >>

KdeFinally == FinallyUmount("configure_kde_neon")

\* setup_user: where the call stops.  Every failing command raises
\* CalledProcessError, which is caught (return False); _configure_sudo and
\* _configure_shell catch their own failures and only a warning follows.
UserOutcomes ==
    { "ok", "bind_failed", "apt_install_failed", "useradd_failed",
      "chpasswd_failed", "chown_failed" }

UserHow(outcome) == IF outcome = "ok" THEN "ok" ELSE "failed"

UserMessage(outcome, sudo_ok, shell_ok) ==
    (IF sudo_ok THEN << >>
     ELSE << "Error: Failed to configure sudo.sh",
             "Warning: Failed to configure sudo.sh, but continuing with installation." >>)
    \o (IF shell_ok THEN << >>
        ELSE << "Error: Failed to configure shell",
                "Warning: Failed to configure shell, but continuing with installation." >>)
    \o (IF outcome = "ok" THEN << "User setup completed successfully." >>
        ELSE << "Error: Failed to set up user" >>)

\* setup_user(pool_name): the try block.
SetupUser ==
    /\ pc = "main.user"
    /\ \E outcome \in UserOutcomes, k \in 1..Len(MOUNT_POINTS),
          sudo_ok \in BOOLEAN, shell_ok \in BOOLEAN :
          LET pname == ret[2]
              tried == IF outcome = "bind_failed" THEN k ELSE Len(MOUNT_POINTS)
              made == IF outcome = "bind_failed" THEN k - 1 ELSE tried
          IN  /\ outcome # "bind_failed" => k = 1
              /\ outcome \notin {"ok", "chown_failed"} => (sudo_ok /\ shell_ok)
              /\ host' = [host EXCEPT !.mounts = @ \cup BindMounted(pname, made)]
              /\ EnterFinally("setup_user", UserHow(outcome),
                              UserMessage(outcome, sudo_ok, shell_ok),
                              tried, outcome # "bind_failed")
    /\ UNCHANGED << disks, disks_with_fs, pool_locals, pool_name, attempt,
                    efi_partition, ret >>

UserFinally == FinallyUmount("setup_user")

\* configure_ssh: where the call stops.  CalledProcessError is caught
\* (return False); _write_sshd_config and _setup_ssh_keys catch IOError and
\* CalledProcessError themselves, but not the TypeError of ssh_key + "\n"
\* when the key prompt is cancelled (None).
SshOutcomes ==
    { "ok", "bind_failed", "apt_install_failed", "key_prompt_cancelled",
      "enable_ssh_failed" }

SshHow(outcome) ==
    IF outcome = "ok" THEN "ok"
    ELSE IF outcome = "key_prompt_cancelled" THEN "raised"
    ELSE "failed"

SshMessage(outcome, sshd_ok, keys_ok) ==
    (IF sshd_ok THEN << >>
     ELSE << "Error: Failed to write SSH configuration",
             "Warning: Failed to write SSH configuration, but continuing with installation." >>)
    \o (IF keys_ok THEN << >>
        ELSE << "Error: Failed to set up SSH keys",
                "Warning: Failed to set up SSH keys, but continuing with installation." >>)
    \o (CASE outcome = "ok" -> << "SSH configured successfully." >>
          [] outcome = "key_prompt_cancelled" -> << "TypeError" >>
          [] OTHER -> << "Error: Failed to configure SSH" >>)

\* configure_ssh(pool_name): the try block.
ConfigureSsh ==
    /\ pc = "main.ssh"
    /\ \E outcome \in SshOutcomes, k \in 1..Len(MOUNT_POINTS),
          sshd_ok \in BOOLEAN, keys_ok \in BOOLEAN :
          LET pname == ret[2]
              tried == IF outcome = "bind_failed" THEN k ELSE Len(MOUNT_POINTS)
              made == IF outcome = "bind_failed" THEN k - 1 ELSE tried
          IN  /\ outcome # "bind_failed" => k = 1
              /\ outcome \in {"bind_failed", "apt_install_failed"} => (sshd_ok /\ keys_ok)
              /\ outcome = "key_prompt_cancelled" => keys_ok
              /\ host' = [host EXCEPT !.mounts = @ \cup BindMounted(pname, made)]
              /\ EnterFinally("configure_ssh", SshHow(outcome),
                              SshMessage(outcome, sshd_ok, keys_ok),
                              tried, outcome # "bind_failed")
    /\ UNCHANGED << disks, disks_with_fs, pool_locals, pool_name, attempt,
                    efi_partition, ret >>

SshFinally == FinallyUmount("configure_ssh")

\* configure_system_settings: where the call stops.  Only
\* CalledProcessError is caught, and only its handler unmounts; the open
\* and os.makedirs calls raise OSError.
SystemOutcomes ==
    { "ok", "bind_failed", "locale_gen_failed", "timezone_failed", "write_oserror" }

SystemHow(outcome) ==
    IF outcome = "ok" THEN "ok"
    ELSE IF outcome = "write_oserror" THEN "raised"
    ELSE "failed"

SystemMessage(outcome) ==
    IF outcome = "ok" THEN << "System settings configured successfully." >>
    ELSE IF SystemHow(outcome) = "failed"
    THEN << "Error: Failed to configure system settings" >>
    ELSE << "OSError" >>

\* Whether configure_system_settings runs its cleanup loop when its body
\* ended with `how`: the loop is in the except CalledProcessError handler.
SystemCleansUp_Always(how) == TRUE

SystemCleansUp(how) == how = "failed"

CmdTimezone(pname) ==
    << "chroot", Root(pname), "ln", "-sf", "/usr/share/zoneinfo/America/New_York",
       "/etc/localtime" >>
CmdLocaleGen(pname) == << "chroot", Root(pname), "locale-gen" >>

\* configure_system_settings(pool_name), the except handler included.
ConfigureSystemSettings ==
    /\ pc = "main.system"
    /\ \E outcome \in SystemOutcomes, k \in 0..(Len(MOUNT_POINTS) - 1),
          stuck \in SUBSET BindTargets(ret[2]) :
          LET pname == ret[2]
              binds == IF outcome = "bind_failed" THEN BindMounted(pname, k)
                       ELSE BindMounted(pname, Len(MOUNT_POINTS))
              before == host.mounts \cup binds
              cleanup == SystemCleansUp(SystemHow(outcome))
          IN  /\ outcome # "bind_failed" => k = 0
              /\ stuck \subseteq before
              /\ ~cleanup => stuck = {}
              /\ host' = [host EXCEPT !.mounts = IF cleanup
                                                 THEN Unmounted(before, pname, stuck)
                                                 ELSE before]
              /\ last' = IF cleanup
                         THEN Entry("configure_system_settings",
                                    CmdUmount(Root(pname) \o "/dev"),
                                    (Root(pname) \o "/dev") \in before \ stuck)
                         ELSE IF outcome = "ok"
                         THEN Entry("configure_system_settings", CmdTimezone(pname), TRUE)
                         ELSE Entry("configure_system_settings", CmdLocaleGen(pname), TRUE)
              /\ EndStep("configure_system_settings", SystemHow(outcome),
                         SystemMessage(outcome))
    /\ UNCHANGED << disks, disks_with_fs, pool_locals, pool_name, idx, attempt,
                    efi_partition, ret >>

Next ==
    \/ CheckPrerequisites
    \/ SelectDisks
    \/ IdentifyDisksWithFilesystems
    \/ HandleExistingFilesystems
    \/ WipeWipefs
    \/ WipeZap
    \/ WipeSync
    \/ GetPoolConfiguration
    \/ PrepWipefs
    \/ PrepZap
    \/ PrepNewEfi
    \/ PrepNewZfs
    \/ PrepPartprobe
    \/ PrepBlockdev
    \/ PrepSync
    \/ PollEfiNode
    \/ CheckEfiNode
    \/ FormatEfi
    \/ ZpoolCreate
    \/ EnablePoolAutotrim
    \/ CreateTrimServiceFiles
    \/ CreateZfsDatasets
    \/ DeployOs
    \/ DeployFinally
    \/ ConfigureKdeNeon
    \/ KdeFinally
    \/ SetupUser
    \/ UserFinally
    \/ ConfigureSsh
    \/ SshFinally
    \/ ConfigureSystemSettings

Spec == Init /\ [][Next]_vars

\* The runs of main in which every external command and every prompt
\* returns: the one process of the program always takes its next step.
SpecLive == Spec /\ WF_vars(Next)

(***************************************************************************)
(* The Pool Planner alone: _get_available_pool_types and                   *)
(* _build_pool_create_command applied to every disk list, layout and pool  *)
(* name of the bounded input sets, also the ones no prompt would answer.   *)
(***************************************************************************)
InitPlan ==
    /\ pc = "plan.types"
    /\ disks \in Selections(Devices(MaxDiskCount)) \ {<< >>}
    /\ pool_type \in PoolLayouts \cup {None}
    /\ pool_name \in NameAnswers
    /\ disks_with_fs = << >>
    /\ pool_types = << >>
    /\ idx = 0
    /\ attempt = 0
    /\ efi_partition = Unset
    /\ pool_create_cmd = << >>
    /\ cfg_success = TRUE
    /\ ret = NoReturn
    /\ last = NoCommand
    /\ out = << >>
    /\ host = HostInit
    /\ steps = << >>
    /\ exit_code = NoExit

\* pool_types = _get_available_pool_types(len(disks))
PlanLayouts ==
    /\ pc = "plan.types"
    /\ pool_types' = AvailablePoolTypes(Len(disks))
    /\ pc' = "plan.build"
    /\ UNCHANGED << disks, disks_with_fs, pool_type, pool_name, idx, attempt,
                    efi_partition, pool_create_cmd, cfg_success, ret, last, out,
                    host, steps, exit_code >>

\* pool_create_cmd = _build_pool_create_command(pool_type, pool_name, disks,
\*                                              zfs_partitions)
BuildCommand ==
    /\ pc = "plan.build"
    /\ pool_create_cmd' = BuildPoolCreateCommand(pool_type, pool_name, disks,
                                                 ZfsPartitions(disks))
    /\ out' = BuildWarnings(pool_type, disks)
    /\ pc' = "plan.done"
    /\ UNCHANGED << disks, disks_with_fs, pool_types, pool_type, pool_name, idx,
                    attempt, efi_partition, cfg_success, ret, last, host, steps,
                    exit_code >>

NextPlan ==
    \/ PlanLayouts
    \/ BuildCommand

SpecPlan == InitPlan /\ [][NextPlan]_vars

(***************************************************************************)
(* The command runner alone: run_command called once on a command, the     *)
(* child ending with any exit status and any captured output.              *)
(***************************************************************************)
RunCommands ==
    { CmdSync, CmdWipefs(DiskPath(0)), CmdZap(DiskPath(0)), CmdPartprobe(DiskPath(0)),
      CmdMkfs(DiskPath(0) \o "1"), CmdAutotrim("neonpool") }

ChildOutputs == {"", "text"}

\* How run_command ends: `return result.stdout`, or `raise
\* subprocess.CalledProcessError(e.returncode, e.cmd, e.output, e.stderr)`.
RunResult_DropStderr(command, status, stdout, stderr) ==
    IF status = 0
    THEN [kind |-> "return", value |-> stdout, returncode |-> 0, cmd |-> << >>,
          output |-> "", stderr |-> ""]
    ELSE [kind |-> "raise", value |-> "", returncode |-> status, cmd |-> command,
          output |-> stdout, stderr |-> ""]

RunResult(command, status, stdout, stderr) ==
    IF status = 0
    THEN [kind |-> "return", value |-> stdout, returncode |-> 0, cmd |-> << >>,
          output |-> "", stderr |-> ""]
    ELSE [kind |-> "raise", value |-> "", returncode |-> status, cmd |-> command,
          output |-> stdout, stderr |-> stderr]

\* run_command(command) is called; no child yet.
InitRun ==
    /\ pc = "run.call"
    /\ pool_create_cmd \in RunCommands
    /\ disks = << >>
    /\ disks_with_fs = << >>
    /\ pool_types = << >>
    /\ pool_type = Unset
    /\ pool_name = Unset
    /\ cfg_success = TRUE
    /\ idx = 0
    /\ attempt = 0
    /\ efi_partition = Unset
    /\ ret = NoReturn
    /\ last = NoCommand
    /\ out = << >>
    /\ host = HostInit
    /\ steps = << >>
    /\ exit_code = NoExit

\* subprocess.run(command, check=True, stdout=PIPE, stderr=PIPE, text=True):
\* a child is spawned and waited for; it ends with some status and output.
\* attempt counts the children spawned.
RunSpawn ==
    /\ pc = "run.call"
    /\ \E status \in 0..MaxExitStatus, stdout \in ChildOutputs, stderr \in ChildOutputs :
          /\ exit_code' = status
          /\ out' = << stdout, stderr >>
          /\ last' = Entry("run_command", pool_create_cmd, status = 0)
    /\ attempt' = attempt + 1
    /\ pc' = "run.wait"
    /\ UNCHANGED << disks, disks_with_fs, pool_locals, pool_name, idx, efi_partition,
                    ret, host, steps >>

\* The child has ended: run_command returns its stdout or raises.
RunFinish ==
    /\ pc = "run.wait"
    /\ ret' = RunResult(pool_create_cmd, exit_code, out[1], out[2])
    /\ pc' = "run.done"
    /\ UNCHANGED << disks, disks_with_fs, pool_locals, pool_name, idx, attempt,
                    efi_partition, last, out, host, steps, exit_code >>

NextRun ==
    \/ RunSpawn
    \/ RunFinish

SpecRun == InitRun /\ [][NextRun]_vars

(***************************************************************************)
(* The Disk Inventory's listing alone: the filter and the sort of          *)
(* get_available_nvme_disks applied to the entries of /dev, in any order.  *)
(* An entry name is the sequence of its characters.                        *)
(***************************************************************************)
IsDigit(c) == \E i \in 0..9 : Digit(i) = c
DigitValue(c) == CHOOSE i \in 0..9 : Digit(i) = c

\* The decimal digits of a natural number.
RECURSIVE DigitsOf(_)
DigitsOf(n) == IF n < 10 THEN << Digit(n) >> ELSE DigitsOf(n \div 10) \o << Digit(n % 10) >>

\* The name nvme<N>n<M>.
NvmeName(N, M) == << "n", "v", "m", "e" >> \o DigitsOf(N) \o << "n" >> \o DigitsOf(M)

\* The index after the run of digits of s that starts at index i.
RECURSIVE DigitRunEnd(_, _)
DigitRunEnd(s, i) ==
    IF i <= Len(s) /\ IsDigit(s[i]) THEN DigitRunEnd(s, i + 1) ELSE i

\* d.startswith(NVME_PREFIX) and re.match(r'nvme\d+n\d+$', d)
MatchesNvme(s) ==
    /\ Len(s) >= 4
    /\ SubSeq(s, 1, 4) = << "n", "v", "m", "e" >>
    /\ LET a == DigitRunEnd(s, 5)
       IN  /\ a > 5
           /\ a <= Len(s)
           /\ s[a] = "n"
           /\ DigitRunEnd(s, a + 1) > a + 1
           /\ DigitRunEnd(s, a + 1) = Len(s) + 1

\* re.findall(pattern, x) read as integers, for the patterns \d+ and \d:
\* acc holds the numbers found, inrun tells a run of digits is being read.
RECURSIVE ScanNumbers(_, _, _, _)
ScanNumbers(s, whole_runs, inrun, acc) ==
    IF s = << >> THEN acc
    ELSE IF ~IsDigit(Head(s)) THEN ScanNumbers(Tail(s), whole_runs, FALSE, acc)
    ELSE IF inrun /\ whole_runs
    THEN ScanNumbers(Tail(s), whole_runs, TRUE,
                     [acc EXCEPT ![Len(acc)] = @ * 10 + DigitValue(Head(s))])
    ELSE ScanNumbers(Tail(s), whole_runs, TRUE, Append(acc, DigitValue(Head(s))))

\* key=lambda x: [int(n) for n in re.findall(r'\d+', x)]
SortKey_SingleDigits(x) == ScanNumbers(x, FALSE, FALSE, << >>)

SortKey(x) == ScanNumbers(x, TRUE, FALSE, << >>)

\* a < b for lists of integers, as Python compares lists.
RECURSIVE ListLess(_, _)
ListLess(a, b) ==
    IF b = << >> THEN FALSE
    ELSE IF a = << >> THEN TRUE
    ELSE IF Head(a) # Head(b) THEN Head(a) < Head(b)
    ELSE ListLess(Tail(a), Tail(b))

\* list.sort(key=...): stable, ascending by key.
RECURSIVE InsertByKey(_, _)
InsertByKey(sorted, x) ==
    IF sorted = << >> THEN << x >>
    ELSE IF ListLess(SortKey(x), SortKey(Head(sorted))) THEN << x >> \o sorted
    ELSE << Head(sorted) >> \o InsertByKey(Tail(sorted), x)

RECURSIVE SortDevices(_)
SortDevices(s) ==
    IF s = << >> THEN << >>
    ELSE InsertByKey(SortDevices(SubSeq(s, 1, Len(s) - 1)), s[Len(s)])

\* Entries /dev can hold: whole NVMe namespaces, a partition, a controller,
\* another kind of disk.
DevEntries ==
    { NvmeName(1, 1), NvmeName(2, 1), NvmeName(10, 1), NvmeName(1, 2), NvmeName(1, 10),
      NvmeName(1, 1) \o << "p", "1" >>, << "n", "v", "m", "e", "0" >>,
      << "s", "d", "a" >> }

\* The sequences of at most n different elements of S.
RECURSIVE Listings(_, _)
Listings(S, n) ==
    IF n = 0 THEN {<< >>}
    ELSE LET shorter == Listings(S, n - 1)
         IN  shorter \cup {Append(l, e) : l \in shorter, e \in S}

\* os.listdir('/dev') has returned; disks_with_fs holds the entries as
\* read, disks will hold nvme_devices.
InitList ==
    /\ pc = "list.filter"
    /\ disks_with_fs \in {l \in Listings(DevEntries, MaxListing) :
                             \A i, j \in 1..Len(l) : l[i] = l[j] => i = j}
    /\ disks = << >>
    /\ pool_types = << >>
    /\ pool_type = Unset
    /\ pool_name = Unset
    /\ pool_create_cmd = << >>
    /\ cfg_success = TRUE
    /\ idx = 0
    /\ attempt = 0
    /\ efi_partition = Unset
    /\ ret = NoReturn
    /\ last = NoCommand
    /\ out = << >>
    /\ host = HostInit
    /\ steps = << >>
    /\ exit_code = NoExit

\* nvme_devices = [d for d in os.listdir('/dev') if ...]
FilterDevices ==
    /\ pc = "list.filter"
    /\ disks' = SelectSeq(disks_with_fs, MatchesNvme)
    /\ pc' = "list.sort"
    /\ UNCHANGED << disks_with_fs, pool_locals, pool_name, idx, attempt, efi_partition,
                    ret, last, out, host, steps, exit_code >>

\* nvme_devices.sort(key=...)
SortListedDevices ==
    /\ pc = "list.sort"
    /\ disks' = SortDevices(disks)
    /\ pc' = "list.sorted"
    /\ UNCHANGED << disks_with_fs, pool_locals, pool_name, idx, attempt, efi_partition,
                    ret, last, out, host, steps, exit_code >>

NextList ==
    \/ FilterDevices
    \/ SortListedDevices

SpecList == InitList /\ [][NextList]_vars

(***************************************************************************)
(* The filesystem queries alone: get_disk_filesystems on line output and   *)
(* get_filesystem_info on JSON output.  A line is the sequence of its      *)
(* tokens and of the blanks between them; a JSON object is a function      *)
(* whose domain is the keys present; a dict is a function.                 *)
(***************************************************************************)
\* Truth value of a Python value: None and "" are false.
Truthy_NotNone(v) == v # None

Truthy(v) == v \notin {None, ""}

\* d[k] = v on a dict.
DictSet(d, k, v) == [x \in (DOMAIN d) \cup {k} |-> IF x = k THEN v ELSE d[x]]

IsToken(c) == c # " "

\* line.split()
Split(line) == SelectSeq(line, IsToken)

\* get_disk_filesystems: the loop over the lines, from the first one.
RECURSIVE DiskFilesystems(_, _)
DiskFilesystems(lines, filesystems) ==
    IF lines = << >> THEN filesystems
    ELSE LET parts == Split(Head(lines))
         IN  IF Len(parts) >= 2 /\ Truthy(parts[2])
             THEN DiskFilesystems(
                      Tail(lines),
                      DictSet(filesystems, "/dev/" \o parts[1],
                              IF parts[2] = "ntfs" THEN "ntfs (Windows)" ELSE parts[2]))
             ELSE DiskFilesystems(Tail(lines), filesystems)

\* get_filesystem_info: the loop over device['children'].
RECURSIVE PartitionFilesystems(_, _)
PartitionFilesystems(children, fs_info) ==
    IF children = << >> THEN fs_info
    ELSE LET partition == Head(children)
         IN  IF "fstype" \in DOMAIN partition /\ Truthy(partition.fstype)
             THEN PartitionFilesystems(Tail(children),
                                       DictSet(fs_info, partition.kname, partition.fstype))
             ELSE PartitionFilesystems(Tail(children), fs_info)

\* get_filesystem_info on the outcome of lsblk -J: the mapping returned and
\* whether the warning of the except clause was printed.
FilesystemInfo(ok, valid, device_data) ==
    IF ~ok THEN [fs |-> << >>, warned |-> TRUE]
    ELSE IF ~valid THEN [fs |-> << >>, warned |-> FALSE]
    ELSE IF "blockdevices" \notin DOMAIN device_data \/ device_data.blockdevices = << >>
    THEN [fs |-> << >>, warned |-> FALSE]
    ELSE LET device == device_data.blockdevices[1]
             own == IF "fstype" \in DOMAIN device /\ Truthy(device.fstype)
                    THEN DictSet(<< >>, device.kname, device.fstype)
                    ELSE << >>
         IN  [fs |-> IF "children" \in DOMAIN device
                     THEN PartitionFilesystems(device.children, own)
                     ELSE own,
              warned |-> FALSE]

\* Lines lsblk -n -o NAME,FSTYPE can print: a name alone, a name and a
\* type, a name and trailing blanks, an empty line, a blank line.
LsblkLines ==
    { << "nvme0n1" >>, << "nvme0n1", " ", "ext4" >>, << "nvme0n1p1", " ", "vfat" >>,
      << "nvme0n1p2", " ", "ntfs" >>, << "nvme0n1p3", " " >>, << >>, << " " >> }

\* Values of "fstype" in the JSON output: null, or a string.
JsonFstypes == {None, "", "ext4", "vfat"}

\* JSON objects with key kname, and key fstype or not.
JsonNodes(knames) ==
    {[kname |-> k] : k \in knames}
        \cup {[kname |-> k, fstype |-> f] : k \in knames, f \in JsonFstypes}

JsonPartitions == JsonNodes({"/dev/nvme0n1p1", "/dev/nvme0n1p2"})

\* The device objects: with key children (a list of partitions) or not.
JsonDevices ==
    LET nodes == JsonNodes({"/dev/nvme0n1"})
    IN  nodes \cup
        UNION {{IF "fstype" \in DOMAIN n
                THEN [kname |-> n.kname, fstype |-> n.fstype, children |-> c]
                ELSE [kname |-> n.kname, children |-> c] :
                   c \in Listings(JsonPartitions, MaxChildren)} : n \in nodes}

\* The documents: without key blockdevices, with an empty list, with a device.
JsonDocuments ==
    {[other |-> << >>], [blockdevices |-> << >>]}
        \cup {[blockdevices |-> << d >>] : d \in JsonDevices}

\* One of the two queries is called; out holds what lsblk answers.
InitFs ==
    /\ \/ /\ pc = "fs.lines"
          /\ out \in [ok : BOOLEAN, lines : Listings(LsblkLines, MaxLines)]
       \/ /\ pc = "fs.json"
          /\ out \in [ok : BOOLEAN, valid : BOOLEAN, device_data : JsonDocuments]
    /\ disks = << >>
    /\ disks_with_fs = << >>
    /\ pool_types = << >>
    /\ pool_type = Unset
    /\ pool_name = Unset
    /\ pool_create_cmd = << >>
    /\ cfg_success = TRUE
    /\ idx = 0
    /\ attempt = 0
    /\ efi_partition = Unset
    /\ ret = NoReturn
    /\ last = NoCommand
    /\ host = HostInit
    /\ steps = << >>
    /\ exit_code = NoExit

\* get_disk_filesystems(disk_path): a failing lsblk leaves the mapping empty.
GetDiskFilesystems ==
    /\ pc = "fs.lines"
    /\ ret' = [fs |-> IF out.ok THEN DiskFilesystems(out.lines, << >>) ELSE << >>,
               warned |-> FALSE]
    /\ last' = Entry("get_disk_filesystems", CmdLsblkFs(DiskPath(0)), out.ok)
    /\ pc' = "fs.lines.done"
    /\ UNCHANGED << disks, disks_with_fs, pool_locals, pool_name, idx, attempt,
                    efi_partition, out, host, steps, exit_code >>

\* get_filesystem_info(disk_path)
GetFilesystemInfo ==
    /\ pc = "fs.json"
    /\ ret' = FilesystemInfo(out.ok, out.valid, out.device_data)
    /\ last' = Entry("get_filesystem_info", CmdLsblkJson(DiskPath(0)), out.ok)
    /\ pc' = "fs.json.done"
    /\ UNCHANGED << disks, disks_with_fs, pool_locals, pool_name, idx, attempt,
                    efi_partition, out, host, steps, exit_code >>

NextFs ==
    \/ GetDiskFilesystems
    \/ GetFilesystemInfo

SpecFs == InitFs /\ [][NextFs]_vars

(***************************************************************************)
(* Properties of the Pool Planner (under SpecPlan).                        *)
(***************************************************************************)
\* The layouts the data model allows for a disk count.
LegalLayouts(disk_count) ==
    IF disk_count = 1 THEN {"single"}
    ELSE IF disk_count = 2 THEN {"mirror", "single"}
    ELSE IF disk_count = 3 THEN {"raidz1", "mirror", "single"}
    ELSE {"raidz2", "raidz1", "mirror", "single"}

\* C1: for every disk count from 1 to the bound, the layouts
\* _get_available_pool_types offers are exactly the legal ones of that count:
\* none missing, none extra, none offered twice.
C1_OfferedLayoutsExact ==
    pc # "plan.types" =>
        /\ Range(pool_types) = LegalLayouts(Len(disks))
        /\ Len(pool_types) = Cardinality(LegalLayouts(Len(disks)))

\* C1 witness: the table's four rows have been computed (here the last one).
C1_Witness ==
    /\ pc = "plan.done"
    /\ Len(disks) = 5
    /\ pool_types = << "raidz1", "raidz2", "mirror", "single" >>

\* The tuning options in the documented order.
DocumentedOptions ==
    << "-o", "ashift=12", "-o", "compression=zstd", "-o", "xattr=sa",
       "-o", "acltype=posixacl", "-o", "dnodesize=auto", "-o", "atime=off",
       "-O", "canmount=off", "-O", "mountpoint=none", "-O", "normalization=formD" >>

\* The zpool keyword of a redundant layout.
Keyword(ptype) ==
    CASE ptype = "mirror" -> "mirror"
      [] ptype = "raidz1" -> "raidz"
      [] ptype = "raidz2" -> "raidz2"

\* C3: for mirror, raidz1 and raidz2 the argv built is zpool create -f, the
\* pool name, the layout's keyword, the data partition (disk + "2") of every
\* disk in selection order, then the tuning options; and the two-disk mirror
\* of the end-to-end scenario gives exactly the documented argv.
C3_RedundantLayoutCommand ==
    pc = "plan.done" =>
        /\ pool_type \in {"mirror", "raidz1", "raidz2"} =>
              pool_create_cmd =
                  << "zpool", "create", "-f", pool_name, Keyword(pool_type) >>
                      \o [i \in 1..Len(disks) |-> disks[i] \o "2"]
                      \o DocumentedOptions
        /\ ( /\ disks = << "/dev/nvme0n1", "/dev/nvme1n1" >>
             /\ pool_type = "mirror"
             /\ pool_name = "neonpool" ) =>
              pool_create_cmd =
                  << "zpool", "create", "-f", "neonpool", "mirror",
                     "/dev/nvme0n12", "/dev/nvme1n12",
                     "-o", "ashift=12", "-o", "compression=zstd", "-o", "xattr=sa",
                     "-o", "acltype=posixacl", "-o", "dnodesize=auto",
                     "-o", "atime=off", "-O", "canmount=off",
                     "-O", "mountpoint=none", "-O", "normalization=formD" >>

\* C3 witness: the command of the end-to-end scenario has been built.
C3_Witness ==
    /\ pc = "plan.done"
    /\ disks = << "/dev/nvme0n1", "/dev/nvme1n1" >>
    /\ pool_type = "mirror"
    /\ pool_name = "neonpool"
    /\ Len(pool_create_cmd) = 25

\* Every path naming disk d or one of its two partitions.
PathsOf(d) == {d, d \o "1", d \o "2"}

\* C4: for layout single the argv names the data partition of the first disk
\* and nothing of any other disk; the first-disk warning is printed when, and
\* only when, more than one disk is selected.
C4_SingleUsesFirstDisk ==
    (pc = "plan.done" /\ pool_type = "single") =>
        /\ pool_create_cmd =
              << "zpool", "create", "-f", pool_name, disks[1] \o "2" >>
                  \o DocumentedOptions
        /\ \A i \in 2..Len(disks) : PathsOf(disks[i]) \cap Range(pool_create_cmd) = {}
        /\ (Len(disks) > 1) <=> (WARN_FIRST_DISK \in Range(out))

\* C4 witness: single was built for two disks and the warning was printed.
C4_Witness ==
    /\ pc = "plan.done"
    /\ pool_type = "single"
    /\ Len(disks) = 2
    /\ out = << WARN_FIRST_DISK >>

\* The last n elements of a sequence.
Suffix(s, n) == SubSeq(s, Len(s) - n + 1, Len(s))

\* C5: whatever the layout (a missing one included), the pool name and the
\* disks, the argv built ends with the tuning options in the documented order.
C5_FixedOptionSuffix ==
    pc = "plan.done" =>
        /\ Len(pool_create_cmd) >= 3 + Len(DocumentedOptions)
        /\ Suffix(pool_create_cmd, Len(DocumentedOptions)) = DocumentedOptions
        /\ SubSeq(pool_create_cmd, 1, 3) = << "zpool", "create", "-f" >>

\* C5 witness: a raidz2 command over four disks has been built.
C5_Witness ==
    /\ pc = "plan.done"
    /\ pool_type = "raidz2"
    /\ Len(disks) = 4
    /\ Len(pool_create_cmd) = 27

(***************************************************************************)
(* Properties of a run of main (under Spec).                               *)
(***************************************************************************)
\* The functions of the pool-creation step that run commands.
PoolFns ==
    {"_prepare_disk_partitions", "create_zfs_pool", "enable_pool_autotrim",
     "_create_trim_service_files"}

IsZpoolCreate(e) ==
    /\ Len(e.argv) >= 3
    /\ SubSeq(e.argv, 1, 3) = << "zpool", "create", "-f" >>

IsZpoolSet(e) ==
    /\ Len(e.argv) >= 2
    /\ SubSeq(e.argv, 1, 2) = << "zpool", "set" >>

\* Every selected disk carries both partitions and the EFI partition of the
\* first one is formatted.
Prepared ==
    /\ disks # << >>
    /\ \A i \in 1..Len(disks) : host.table[disks[i]] = "efi+zfs"
    /\ (disks[1] \o "1") \in host.formatted

PoolStepInvoked == Len(steps) >= 3
PoolStepResult == IF PoolStepInvoked THEN steps[3].result ELSE "not invoked"

\* C2: while create_zfs_pool holds a layout that is not legal for the number
\* of selected disks, no function of the step has run a command or probed the
\* disks, and no pool-creation command has been built.
C2_IllegalLayoutRejected ==
    ( /\ PoolStepResult = "running"
      /\ pool_type # Unset
      /\ pool_type \notin LegalLayouts(Len(disks)) ) =>
        /\ last.fn \notin PoolFns
        /\ pool_create_cmd = << >>
        /\ \A i \in 1..Len(disks) : host.table[disks[i]] \notin {"efi", "efi+zfs"}

\* The phase of the pool-creation step, read off the machine and the step's
\* result.
Phase ==
    IF ~PoolStepInvoked THEN "Unconfigured"
    ELSE IF PoolStepResult \in {"failed", "raised"} THEN "Failed"
    ELSE IF PoolStepResult = "ok" THEN "PoolConfigured"
    ELSE IF host.pools # {} THEN "PoolCreated"
    ELSE IF Prepared THEN "PartitionsPrepared"
    ELSE "Unconfigured"

PhaseSteps ==
    { << "Unconfigured", "PartitionsPrepared" >>,
      << "PartitionsPrepared", "PoolCreated" >>,
      << "PoolCreated", "PoolConfigured" >>,
      << "Unconfigured", "Failed" >>,
      << "PartitionsPrepared", "Failed" >>,
      << "PoolCreated", "Failed" >> }

\* C6: zpool create is run only on disks that are all partitioned, the EFI
\* partition formatted; zpool set is run only on a pool that zpool create
\* made; the phase changes only along Unconfigured -> PartitionsPrepared ->
\* PoolCreated -> PoolConfigured or to Failed; once the step has failed the
\* run is over and nothing more is run or changed.
C6_PhaseOrder ==
    /\ [](IsZpoolCreate(last) => Prepared)
    /\ [](IsZpoolSet(last) => last.argv[Len(last.argv)] \in host.pools)
    /\ [](Phase = "Failed" => pc \in {"done", "crashed"})
    /\ [][ /\ Phase' # Phase => << Phase, Phase' >> \in PhaseSteps
           /\ Phase = "Failed" => (last' = last /\ host' = host) ]_vars

\* C6 witness: the step went through every phase on all the disks of the
\* machine and ended configured.
C6_Witness ==
    /\ Phase = "PoolConfigured"
    /\ Len(disks) = NumDisks
    /\ Prepared
    /\ ret[1]
    /\ ret[2] \in host.pools \cap host.autotrim
    /\ host.trim_timer

\* C7: once zpool create has made the pool and create_zfs_pool has returned,
\* it has returned (True, pool name, EFI partition path) and main has gone on
\* to create_zfs_datasets, whatever zpool set and the installation of the
\* TRIM timer did.
C7_BestEffortNeverAborts ==
    ( /\ PoolStepInvoked
      /\ PoolStepResult # "running"
      /\ host.pools # {} ) =>
        /\ PoolStepResult = "ok"
        /\ ret[1]
        /\ ret[2] \in host.pools
        /\ ret[3] \in host.formatted
        /\ Len(steps) >= 4

\* C8: the steps main has invoked are a prefix of the fixed order; a step is
\* invoked only when every step before it succeeded; a step that failed is
\* the last one invoked and main has returned non-zero; main returns 0 only
\* when all nine steps succeeded.
C8_StepOrderFailFast ==
    /\ Len(steps) <= Len(StepOrder)
    /\ \A i \in 1..Len(steps) : steps[i].name = StepOrder[i]
    /\ \A i \in 1..(Len(steps) - 1) : steps[i].result = "ok"
    /\ \A i \in 1..Len(steps) :
          steps[i].result \in {"failed", "raised"} =>
              /\ i = Len(steps)
              /\ exit_code = 1
              /\ pc \in {"done", "crashed"}
    /\ exit_code = 0 =>
          /\ Len(steps) = Len(StepOrder)
          /\ \A i \in 1..Len(steps) : steps[i].result = "ok"
    /\ exit_code # NoExit => pc \in {"done", "crashed"}
    /\ (\A i \in 1..Len(steps) : steps[i].result = "ok") /\ Len(steps) = Len(StepOrder)
          => exit_code = 0

\* C8 witness: dataset creation failed; main returned 1 without deploying.
C8_Witness ==
    /\ Len(steps) = 4
    /\ steps[4] = [name |-> "create_zfs_datasets", result |-> "failed"]
    /\ exit_code = 1
    /\ pc = "done"

\* The commands whose failure the claim names: zap, partition 1, partition 2
\* on a disk, mkfs.fat, zpool create.
IsFatalCommand(e) ==
    \/ /\ e.fn = "_prepare_disk_partitions"
       /\ \/ \E d \in AllDisks : e.argv \in {CmdZap(d), CmdNewEfi(d), CmdNewZfs(d)}
          \/ \E d \in AllDisks : e.argv = CmdMkfs(d \o "1")
    \/ /\ e.fn = "create_zfs_pool"
       /\ IsZpoolCreate(e)

\* The disks selected after disk d.
DisksAfter(d) ==
    {disks[j] : j \in {k \in 1..Len(disks) : \E i \in 1..(k - 1) : disks[i] = d}}

\* C9: when the command run last is a failed zap, partition or mkfs.fat of
\* _prepare_disk_partitions or a failed zpool create, create_zfs_pool has
\* returned (False, "", "") and main has returned 1, so nothing runs after it;
\* no pool exists, and after a failed partition-table command the disks
\* selected after the failing one carry no partition.
C9_FatalFailureAborts ==
    (IsFatalCommand(last) /\ ~last.ok) =>
        /\ pc = "done"
        /\ ret = << FALSE, "", "" >>
        /\ PoolStepResult = "failed"
        /\ exit_code = 1
        /\ host.pools = {}
        /\ \A d \in DisksAfter(last.argv[Len(last.argv)]) :
              host.table[d] \notin {"efi", "efi+zfs"}

\* C9 witness: partition 2 could not be created on the first of two disks;
\* the second one was not touched by the step.
C9_Witness ==
    /\ Len(disks) = 2
    /\ last = Entry("_prepare_disk_partitions", CmdNewZfs(disks[1]), FALSE)
    /\ host.table[disks[1]] = "efi"
    /\ host.table[disks[2]] = "orig"
    /\ ret = << FALSE, "", "" >>
    /\ exit_code = 1

\* How far the partition table of a disk has got.
Rank(t) ==
    CASE t = "orig" -> 0
      [] t = "blank" -> 1
      [] t = "efi" -> 2
      [] t = "efi+zfs" -> 3

\* C10: no step undoes what an earlier one did (a partition table only gains
\* partitions, a formatted partition stays formatted, a pool stays), and the
\* step in which create_zfs_pool returns failure changes neither the tables,
\* the formatted partitions nor the pools, create_zfs_pool itself running no
\* command but zpool create.
C10_NoRollback ==
    [][ /\ \A d \in AllDisks : Rank(host'.table[d]) >= Rank(host.table[d])
        /\ host.formatted \subseteq host'.formatted
        /\ host.pools \subseteq host'.pools
        /\ (PoolStepResult = "running" /\ PoolStepResult' = "failed") =>
              /\ host'.table = host.table
              /\ host'.formatted = host.formatted
              /\ host'.pools = host.pools
              /\ last'.fn = "create_zfs_pool" => IsZpoolCreate(last') ]_vars

\* C10 witness: the installer has exited with status 1 after the step
\* partitioned the first of two disks and emptied the table of the second.
C10_Witness ==
    /\ Len(disks) = 2
    /\ PoolStepResult = "failed"
    /\ exit_code = 1
    /\ pc = "done"
    /\ host.table[disks[1]] = "efi+zfs"
    /\ host.table[disks[2]] = "blank"
    /\ last = Entry("_prepare_disk_partitions", CmdNewEfi(disks[2]), FALSE)

\* An argument that names a disk of the machine or something on it.
IsDevicePath(e) ==
    \E d \in AllDisks : \E sfx \in {"", "1", "2", "p1", "p2"} : e = d \o sfx

\* The device arguments of a command, in argv order.
DeviceArgs(argv) == SelectSeq(argv, IsDevicePath)

\* C11: whenever _prepare_disk_partitions has named the EFI partition, has
\* formatted it, or create_zfs_pool has handed it back to main (which passes
\* it to deploy_os), it is the first selected disk's path followed by "1";
\* the device arguments of the zpool create command built are, position by
\* position, the selected disks' paths followed by "2" (all of them for the
\* redundant layouts, the first one for single).
C11_PartitionNaming ==
    /\ efi_partition # Unset => efi_partition = disks[1] \o "1"
    /\ (last.fn = "_prepare_disk_partitions" /\ last.argv[1] \in {"mkfs.fat", "os.path.exists"}) =>
          last.argv[Len(last.argv)] = disks[1] \o "1"
    /\ PoolStepResult = "ok" => ret[3] = disks[1] \o "1"
    /\ pool_create_cmd # << >> =>
          /\ \A i \in 1..Len(DeviceArgs(pool_create_cmd)) :
                DeviceArgs(pool_create_cmd)[i] = disks[i] \o "2"
          /\ pool_type \in {"mirror", "raidz1", "raidz2"} =>
                Len(DeviceArgs(pool_create_cmd)) = Len(disks)
          /\ pool_type = "single" => Len(DeviceArgs(pool_create_cmd)) = 1
    /\ IsZpoolCreate(last) =>
          \A i \in 1..Len(DeviceArgs(last.argv)) :
             DeviceArgs(last.argv)[i] = disks[i] \o "2"

\* C11 witness: a mirror was created on two disks, the first of which is not
\* the first disk of the machine.
C11_Witness ==
    /\ pc = "pool.autotrim"
    /\ pool_type = "mirror"
    /\ Len(disks) = 2
    /\ disks[1] # DiskPath(0)
    /\ efi_partition = disks[1] \o "1"
    /\ efi_partition \in host.formatted
    /\ DeviceArgs(last.argv) = << disks[1] \o "2", disks[2] \o "2" >>

IsMkfs(e) == e.argv # << >> /\ e.argv[1] = "mkfs.fat"

\* C12: mkfs.fat is run only by _prepare_disk_partitions on partition 1 of
\* the first selected disk, and only while nothing has been formatted; a
\* failed mkfs.fat ends the run, so it is run at most once; nothing but that
\* partition is ever formatted; and a pool exists only when every selected
\* disk carries partition 1 and partition 2.
C12_BootPartitionOnce ==
    /\ [](IsMkfs(last) => last.argv[Len(last.argv)] = disks[1] \o "1")
    /\ [](IsMkfs(last) /\ ~last.ok => pc = "done")
    /\ [](host.formatted # {} => host.formatted = {disks[1] \o "1"})
    /\ []((IsZpoolCreate(last) \/ host.pools # {}) =>
             \A i \in 1..Len(disks) : host.table[disks[i]] = "efi+zfs")
    /\ [][ IsMkfs(last') => (pc = "prep.mkfs" /\ host.formatted = {}) ]_vars

\* C12 witness: a pool was created on all the disks of the machine, selected
\* in full; only partition 1 of the first is formatted.
C12_Witness ==
    /\ Len(disks) = NumDisks
    /\ host.pools # {}
    /\ host.formatted = {disks[1] \o "1"}
    /\ \A i \in 1..Len(disks) : host.table[disks[i]] = "efi+zfs"
    /\ \A i \in 2..Len(disks) : (disks[i] \o "1") \notin host.formatted

\* The steps that write files and create directories beside their commands.
WritingSteps == {"deploy_os", "configure_kde_neon", "configure_system_settings"}

\* C13: a call of deploy_os, configure_kde_neon or configure_system_settings
\* that did not succeed returned False to main (no exception left it), an
\* error was printed, and main printed its message and returned 1.
C13_FailuresReported ==
    \A i \in 1..Len(steps) :
        (steps[i].name \in WritingSteps /\ steps[i].result \notin {"running", "ok"}) =>
            /\ steps[i].result = "failed"
            /\ pc = "done"
            /\ exit_code = 1
            /\ Len(out) >= 2
            /\ out[Len(out)] = MainMessage(steps[i].name, FALSE)[1]

\* The operator has just answered the wipe confirmation with no.
WipeDeclined == \E i \in 1..Len(out) : out[i] = ConfirmEcho(FALSE)

\* C14: once the operator has declined the wipe, select_disks has returned
\* the empty selection to main (it did not raise), the command run last is
\* the lsblk query made before the prompt, the machine is as it was, and main
\* has returned 1 with select_disks the last step invoked.
C14_DeclinedWipe ==
    WipeDeclined =>
        /\ disks = << >>
        /\ Len(steps) = 2
        /\ steps[2] = [name |-> "select_disks", result |-> "failed"]
        /\ pc = "done"
        /\ exit_code = 1
        /\ last.fn = "get_filesystem_info"
        /\ last.argv[1] = "lsblk"
        /\ host = HostInit

\* C14 witness: the wipe was declined and the installer has gone.
C14_Witness ==
    /\ WipeDeclined
    /\ out[Len(out)] = "No disks selected. Exiting."
    /\ exit_code = 1
    /\ \A d \in AllDisks : host.table[d] = "orig"

(***************************************************************************)
(* Properties of the command runner (under SpecRun).                       *)
(***************************************************************************)
\* C15: a call of run_command spawns one child and no more; once it has
\* ended, it has returned the captured stdout when the child's status was
\* zero, and otherwise raised a failure carrying the argv it was called with,
\* the child's exit status and the captured stderr.
C15_RunCommandContract ==
    /\ attempt <= 1
    /\ pc \in {"run.wait", "run.done"} => attempt = 1
    /\ pc = "run.done" =>
          IF exit_code = 0
          THEN /\ ret.kind = "return"
               /\ ret.value = out[1]
          ELSE /\ ret.kind = "raise"
               /\ ret.cmd = pool_create_cmd
               /\ ret.returncode = exit_code
               /\ ret.stderr = out[2]

\* C15 witness: the child wrote to stderr and exited with the largest status;
\* run_command raised.
C15_Witness ==
    /\ pc = "run.done"
    /\ attempt = 1
    /\ exit_code = MaxExitStatus
    /\ out = << "", "text" >>
    /\ ret.kind = "raise"
    /\ ret.stderr = "text"
    /\ ret.cmd = CmdZap(DiskPath(0))

\* get_available_nvme_disks has just caught the OSError of the listing.
ListingFailed == out # << >> /\ out[1] = "Error: Failed to list disks"

\* A query subprocess of the listing has just exited non-zero.
QueryFailed == last.fn = "get_disk_filesystems" /\ ~last.ok

\* select_disks has returned the empty selection to main, which returned 1.
EmptySelectionReturned ==
    /\ disks = << >>
    /\ Len(steps) = 2
    /\ steps[2] = [name |-> "select_disks", result |-> "failed"]
    /\ pc = "done"
    /\ exit_code = 1

\* C16 as stated: when the enumeration fails, be it the listing of /dev or a
\* query subprocess, nothing is listed and select_disks returns the empty
\* selection.
C16_EnumerationFailure_Stated ==
    (ListingFailed \/ QueryFailed) => EmptySelectionReturned

\* C16, amended: when the listing of /dev raises OSError the error is
\* printed, select_disks returns the empty selection without raising and no
\* command has been run; a query subprocess that exits non-zero does not
\* empty the listing: the disks it was run on can still be selected.
C16_EnumerationFailure ==
    /\ ListingFailed =>
          /\ EmptySelectionReturned
          /\ last = NoCommand
          /\ host = HostInit
    /\ (QueryFailed /\ disks # << >>) =>
          /\ pc = "select.identify"
          /\ steps[2].result = "running"
          /\ exit_code = NoExit

\* C16 witness: the listing failed and the installer has gone.
C16_Witness ==
    /\ ListingFailed
    /\ out = << "Error: Failed to list disks", "Error: No NVMe disks found.",
                "No disks selected. Exiting." >>
    /\ EmptySelectionReturned

(***************************************************************************)
(* Properties of the Disk Inventory's listing (under SpecList).            *)
(***************************************************************************)
\* Largest N or M of the names considered.
MaxDeviceNumber == 10

\* The names of the form nvme<N>n<M>, and the pair (N, M) of such a name.
NvmePairs == (0..MaxDeviceNumber) \X (0..MaxDeviceNumber)
IsNvmeNamespace(e) == \E p \in NvmePairs : e = NvmeName(p[1], p[2])
PairOf(e) == CHOOSE p \in NvmePairs : e = NvmeName(p[1], p[2])

PairLeq(p, q) == p[1] < q[1] \/ (p[1] = q[1] /\ p[2] <= q[2])

\* C17: the sorted listing holds exactly the entries of /dev of the form
\* nvme<N>n<M>, each once, in ascending order of the pair (N, M) compared as
\* numbers.
C17_NaturalOrder ==
    pc = "list.sorted" =>
        /\ \A i \in 1..Len(disks) : IsNvmeNamespace(disks[i])
        /\ Range(disks) = {e \in Range(disks_with_fs) : IsNvmeNamespace(e)}
        /\ \A i, j \in 1..Len(disks) : disks[i] = disks[j] => i = j
        /\ \A i, j \in 1..Len(disks) :
              i < j => PairLeq(PairOf(disks[i]), PairOf(disks[j]))

\* C17 witness: /dev listed nvme10n1, nvme2n1, nvme1n1 in that order.
C17_Witness ==
    /\ pc = "list.sorted"
    /\ disks_with_fs = << NvmeName(10, 1), NvmeName(2, 1), NvmeName(1, 1) >>
    /\ disks = << NvmeName(1, 1), NvmeName(2, 1), NvmeName(10, 1) >>

(***************************************************************************)
(* Properties of the filesystem queries (under SpecFs)                     *)
(***************************************************************************)
\* The lines of the output that name a device and a filesystem type.
TypedLines(lines) == {i \in 1..Len(lines) : Len(Split(lines[i])) >= 2}

\* The objects of a document that carry a non-null, non-empty fstype.
TypedNodes(device_data) ==
    IF "blockdevices" \notin DOMAIN device_data \/ device_data.blockdevices = << >>
    THEN {}
    ELSE LET device == device_data.blockdevices[1]
             nodes == {device} \cup
                      (IF "children" \in DOMAIN device THEN Range(device.children) ELSE {})
         IN  {n \in nodes : "fstype" \in DOMAIN n /\ n.fstype # None /\ n.fstype # ""}

\* A device object with neither key children nor key fstype was answered.
BareDevice ==
    /\ out.ok /\ out.valid
    /\ "blockdevices" \in DOMAIN out.device_data
    /\ out.device_data.blockdevices # << >>
    /\ DOMAIN out.device_data.blockdevices[1] = {"kname"}

\* C18: the mapping returned by get_disk_filesystems and by
\* get_filesystem_info never holds an empty-string or null value; its keys
\* are exactly the disks and partitions with a detected filesystem; and a
\* device object with neither children nor fstype gives the empty mapping
\* with no warning.
C18_NoEmptyFilesystem ==
    /\ pc \in {"fs.lines.done", "fs.json.done"} =>
           \A p \in DOMAIN ret.fs : ret.fs[p] # "" /\ ret.fs[p] # None
    /\ (pc = "fs.lines.done" /\ out.ok) =>
           DOMAIN ret.fs = {"/dev/" \o Split(out.lines[i])[1] : i \in TypedLines(out.lines)}
    /\ (pc = "fs.json.done" /\ out.ok /\ out.valid) =>
           DOMAIN ret.fs = {n.kname : n \in TypedNodes(out.device_data)}
    /\ (pc = "fs.json.done" /\ BareDevice) =>
           ret = [fs |-> << >>, warned |-> FALSE]

\* Both queries met entries without a filesystem next to entries with one:
\* a line with a name only, and a partition whose fstype is null or "".
C18_Witness ==
    \/ /\ pc = "fs.lines.done" /\ out.ok
       /\ TypedLines(out.lines) # {}
       /\ \E i \in 1..Len(out.lines) : Len(Split(out.lines[i])) = 1
       /\ DOMAIN ret.fs # {}
    \/ /\ pc = "fs.json.done" /\ out.ok /\ out.valid
       /\ TypedNodes(out.device_data) # {}
       /\ "children" \in DOMAIN out.device_data.blockdevices[1]
       /\ \E c \in Range(out.device_data.blockdevices[1].children) :
             "fstype" \in DOMAIN c /\ c.fstype \in {None, ""}
       /\ DOMAIN ret.fs # {}

\* The JSON query answered a device object with neither children nor fstype.
C18_WitnessBare == pc = "fs.json.done" /\ BareDevice

\* C19: while create_zfs_pool holds an empty or missing pool name (the
\* default cleared, or the name prompt cancelled), no function of the step
\* has run a command on the disks, no disk carries a partition made for it,
\* and no pool-creation command has been built or executed.
C19_PoolNameNonEmpty ==
    ( /\ PoolStepResult = "running"
      /\ pool_name \in {"", None} ) =>
        /\ last.fn \notin PoolFns
        /\ pool_create_cmd = << >>
        /\ \A i \in 1..Len(disks) : host.table[disks[i]] \notin {"efi", "efi+zfs"}

\* C20: when wipefs fails on a disk in _prepare_disk_partitions, the
\* preparer goes on to zero the partition table of that disk and the
\* pool-creation step has not failed.
C20_WipefsBestEffort ==
    ( /\ last.fn = "_prepare_disk_partitions"
      /\ Len(last.argv) >= 1
      /\ last.argv[1] = "wipefs"
      /\ ~last.ok ) =>
        /\ PoolStepResult = "running"
        /\ pc = "prep.zap"

\* The latest step tested whether the EFI partition node exists.
IsEfiProbe(e) ==
    /\ e.fn = "_prepare_disk_partitions"
    /\ Len(e.argv) = 2
    /\ e.argv[1] = "os.path.exists"

\* C21 as stated: a node that the five attempts of the wait loop did not
\* find is never formatted; the step fails.
C21_FiveAttempts_Stated ==
    (PoolStepResult = "running" /\ attempt = max_retries) => pc # "prep.mkfs"

\* C21: the wait loop makes at most max_retries attempts, each one that does
\* not find the node followed by one wait, and leaves at the first attempt
\* that finds it; the test after the loop looks once more, and it is this
\* last test that decides: node absent, the step fails; node present,
\* mkfs.fat is next, even after max_retries attempts that did not find it.
C21_BoundedPoll ==
    /\ [](pc = "prep.poll" => attempt < max_retries)
    /\ [](pc = "prep.exists" =>
             /\ attempt <= max_retries
             /\ IsEfiProbe(last)
             /\ (~last.ok => attempt = max_retries))
    /\ [][ /\ (pc = "prep.poll" /\ pc' # pc) =>
                 /\ pc' = "prep.exists"
                 /\ attempt' = IF last'.ok THEN attempt ELSE max_retries
           /\ (pc = "prep.poll" /\ pc' = pc) =>
                 (~last'.ok /\ attempt' = attempt + 1)
           /\ pc = "prep.exists" =>
                 /\ IsEfiProbe(last')
                 /\ IF last'.ok
                    THEN pc' = "prep.mkfs" /\ PoolStepResult' = "running"
                    ELSE pc' = "done" /\ PoolStepResult' = "failed"
           /\ (pc' = "prep.mkfs" /\ pc # pc') => pc = "prep.exists" ]_vars

\* C21 witness: the five attempts of the loop did not find the node, the test
\* after the loop did, and mkfs.fat is next.
C21_Witness ==
    /\ pc = "prep.mkfs"
    /\ attempt = max_retries
    /\ IsEfiProbe(last)
    /\ last.ok

\* The test after the loop did not find the node and the step failed.
C21_WitnessFailed ==
    /\ PoolStepResult = "failed"
    /\ IsEfiProbe(last)
    /\ ~last.ok
    /\ pc = "done"

\* C22: when the test after the wait loop does not find the node of the
\* first disk's partition 1, the step fails at once with (False, "", ""):
\* mkfs.fat and zpool create are not run, then or later, and nothing is
\* formatted; and mkfs.fat is run only in the step that follows a test which
\* found that very node.
C22_NoNodeNoFormat ==
    /\ []( (IsEfiProbe(last) /\ ~last.ok /\ pc \notin {"prep.poll", "prep.exists"}) =>
              /\ pc = "done"
              /\ PoolStepResult = "failed"
              /\ ret = << FALSE, "", "" >>
              /\ host.formatted = {}
              /\ host.pools = {} )
    /\ [][ /\ (pc = "prep.exists" /\ ~last'.ok) =>
                 (IsEfiProbe(last') /\ PoolStepResult' = "failed")
           /\ (IsMkfs(last') /\ last' # last) =>
                 /\ pc = "prep.mkfs"
                 /\ IsEfiProbe(last)
                 /\ last.ok
                 /\ last.argv[2] = last'.argv[Len(last'.argv)]
                 /\ last.argv[2] = disks[1] \o "1" ]_vars

\* C22 witness: the node was found and mkfs.fat has formatted it; zpool
\* create is next.
C22_Witness ==
    /\ pc = "pool.create"
    /\ IsMkfs(last)
    /\ last.ok
    /\ host.formatted = {disks[1] \o "1"}

\* The node was not there at the test after the loop, and the run is over
\* with nothing formatted.
C22_WitnessAbsent ==
    /\ pc = "done"
    /\ PoolStepResult = "failed"
    /\ IsEfiProbe(last)
    /\ ~last.ok
    /\ host.formatted = {}

\* C23: on each disk partprobe is the command that follows the creation of
\* partition 2; blockdev --rereadpt is run exactly when that partprobe
\* failed, on the same disk; whatever the two did, sync on that disk is next
\* and the step is still running, a blockdev that failed leaving a warning;
\* and after sync the loop goes on to the next disk, or to the wait for the
\* EFI node after the last one.
C23_RereadFallback ==
    /\ [](pc = "prep.blockdev" =>
             (last.argv = << "partprobe", disks[idx] >> /\ ~last.ok))
    /\ [][ /\ (pc = "prep.new2" /\ last'.ok) => pc' = "prep.partprobe"
           /\ pc = "prep.partprobe" =>
                 /\ last'.argv = << "partprobe", disks[idx] >>
                 /\ pc' = IF last'.ok THEN "prep.sync" ELSE "prep.blockdev"
           /\ pc = "prep.blockdev" =>
                 /\ last'.argv = << "blockdev", "--rereadpt", disks[idx] >>
                 /\ pc' = "prep.sync"
                 /\ out' = IF last'.ok THEN << >>
                           ELSE << "Warning: Failed to reread partition table" >>
           /\ pc \in {"prep.partprobe", "prep.blockdev"} =>
                 /\ PoolStepResult' = "running"
                 /\ idx' = idx
                 /\ host'.table = host.table
           /\ (last'.argv # << >> /\ last'.argv[1] = "blockdev" /\ last' # last) =>
                 pc = "prep.blockdev"
           /\ (pc = "prep.sync" /\ last'.ok) =>
                 IF idx < Len(disks)
                 THEN pc' = "prep.wipefs" /\ idx' = idx + 1
                 ELSE pc' = "prep.poll" ]_vars

\* C23 witness: partprobe and blockdev both failed on the first of several
\* disks; the warning is out and sync is next.
C23_Witness ==
    /\ pc = "prep.sync"
    /\ idx = 1
    /\ Len(disks) > 1
    /\ last.argv = << "blockdev", "--rereadpt", disks[1] >>
    /\ ~last.ok
    /\ out = << "Warning: Failed to reread partition table" >>
    /\ PoolStepResult = "running"

\* A command that writes to the block devices it names.
IsDestructive(e) ==
    /\ e.argv # << >>
    /\ \/ e.argv[1] \in {"wipefs", "sgdisk", "partprobe", "blockdev", "mkfs.fat"}
       \/ IsZpoolCreate(e)

\* The selected disks and their two partitions.
SelectedTargets == {d \o sfx : d \in Range(disks), sfx \in {"", "1", "2"}}

\* C24: the selection, once made, is never replaced by another one; every
\* step that runs a destructive command runs it on selected disks or on
\* partition 1 or 2 of selected disks only; and no step changes the
\* partition table of, or formats anything on, a disk outside the selection.
C24_OnlySelectedDisks ==
    [][ /\ disks # << >> => disks' \in {disks, << >>}
        /\ (IsDestructive(last') /\ last' # last) =>
              Range(DeviceArgs(last'.argv)) \subseteq SelectedTargets
        /\ \A d \in AllDisks :
              host'.table[d] # host.table[d] => d \in Range(disks)
        /\ (host'.formatted \ host.formatted) \subseteq SelectedTargets ]_vars

\* C24 witness: the machine lists more disks than the operator selected, the
\* selected ones are partitioned and pooled, the others are as they were.
C24_Witness ==
    /\ host.pools # {}
    /\ Prepared
    /\ Range(disks) # AllDisks
    /\ \A d \in AllDisks \ Range(disks) : host.table[d] = "orig"

\* The places of wipe_disks.
WipePlaces == {"wipe.wipefs", "wipe.zap", "wipe.sync"}

\* C25: the pool-creation step runs only after select_disks has returned a
\* selection; wipe_disks is entered only on a confirmed prompt; when sgdisk
\* or sync fails on a disk, wipe_disks stops there, the disks after it are as
\* they were, select_disks returns [] and main returns 1 without invoking the
\* pool-creation step; and select_disks hands a selection holding disks with
\* detected filesystems to the pool-creation step only when sync succeeded on
\* the last of them, every one of them zapped.
C25_WipeBeforePartition ==
    /\ [](PoolStepInvoked => steps[2] = [name |-> "select_disks", result |-> "ok"])
    /\ [](pc \in WipePlaces => (disks_with_fs # << >> /\ ~PoolStepInvoked))
    /\ [][ /\ (pc = "select.confirm" /\ pc' \in WipePlaces) =>
                 \E i \in 1..Len(out') : out'[i] = ConfirmEcho(TRUE)
           /\ (pc' \in WipePlaces /\ pc \notin WipePlaces) => pc = "select.confirm"
           /\ (pc \in {"wipe.zap", "wipe.sync"} /\ ~last'.ok) =>
                 /\ disks' = << >>
                 /\ pc' = "done"
                 /\ exit_code' = 1
                 /\ steps'[Len(steps')] = [name |-> "select_disks", result |-> "failed"]
                 /\ \A j \in (idx + 1)..Len(disks_with_fs) :
                       host'.table[disks_with_fs[j]] = "orig"
           /\ (disks_with_fs # << >> /\ PoolStepInvoked') =>
                 /\ pc = "wipe.sync"
                 /\ last'.ok
                 /\ idx = Len(disks_with_fs)
                 /\ disks' = disks
                 /\ \A d \in Range(disks_with_fs) : host'.table[d] = "blank" ]_vars

\* C25 witness: the first disk with a filesystem was wiped, sgdisk failed on
\* the next one, a third disk is as it was, and main has returned 1 after
\* select_disks.
C25_Witness ==
    /\ pc = "done"
    /\ exit_code = 1
    /\ Len(steps) = 2
    /\ last.fn = "wipe_disks"
    /\ last.argv[1] = "sgdisk"
    /\ ~last.ok
    /\ \E d \in AllDisks : host.table[d] = "blank"
    /\ \E d \in AllDisks : d # last.argv[Len(last.argv)] /\ host.table[d] = "orig"

\* The steps whose cleanup is a finally clause.
FinallySteps == {"deploy_os", "configure_kde_neon", "setup_user", "configure_ssh"}

\* The step that is running, "" when none is.
RunningStep ==
    IF steps # << >> /\ steps[Len(steps)].result = "running"
    THEN steps[Len(steps)].name
    ELSE ""

\* The latest step was the umount of mount point mp under the new root, run
\* by step `name`.
UmountOf(e, name, mp) ==
    /\ e.fn = name
    /\ e.argv = << "umount", "/" \o ret[2] \o "/ROOT" \o mp >>

\* C26: deploy_os, configure_kde_neon, setup_user and configure_ssh leave
\* their try block only into their cleanup, whatever the block did (returned
\* True, returned False, or was left by an exception); the cleanup runs
\* umount on /sys, then /proc, then /dev under the new root, whether each
\* umount succeeds or not; and the step ends only after the umount of /dev,
\* with the result its try block had, whatever the three umounts did.
C26_UnmountOnEveryPath ==
    [][ \A name \in FinallySteps :
          /\ (RunningStep = name /\ pc = StepEntry[StepIndex(name)]) =>
                /\ \E how \in Hows : pc' = FinallyPc(name, how)
                /\ idx' = 1
                /\ RunningStep' = name
          /\ \A how \in Hows :
                pc = FinallyPc(name, how) =>
                   /\ RunningStep = name
                   /\ idx \in 1..3
                   /\ idx = 1 => (UmountOf(last', name, "/sys") /\ idx' = 2 /\ pc' = pc)
                   /\ idx = 2 => /\ UmountOf(last, name, "/sys")
                                 /\ UmountOf(last', name, "/proc")
                                 /\ idx' = 3
                                 /\ pc' = pc
                   /\ idx = 3 => /\ UmountOf(last, name, "/proc")
                                 /\ UmountOf(last', name, "/dev")
                                 /\ RunningStep' # name
                                 /\ steps'[StepIndex(name)].result = how
                                 /\ (how = "ok") = (pc' \notin {"done", "crashed"})
          /\ (RunningStep = name /\ RunningStep' # name) =>
                \E how \in Hows : pc = FinallyPc(name, how) /\ idx = 3 ]_vars

\* C26 witness: deploy_os returned False before any bind mount was made; the
\* three umounts were run and failed, the last of them on /dev, and main was
\* told False.
C26_Witness ==
    /\ pc = "done"
    /\ steps[Len(steps)] = [name |-> "deploy_os", result |-> "failed"]
    /\ UmountOf(last, "deploy_os", "/dev")
    /\ ~last.ok
    /\ host.mounts \cap BindTargets(ret[2]) = {}

\* configure_ssh succeeded although its umount of /dev failed, the mount
\* left in place.
C26_WitnessStuck ==
    /\ pc = "main.system"
    /\ UmountOf(last, "configure_ssh", "/dev")
    /\ ~last.ok
    /\ (Root(ret[2]) \o "/dev") \in host.mounts

\* C27: configure_system_settings runs umount exactly on the paths where it
\* returns False (a command of its body failed); on the others it leaves
\* every bind mount in place; so when main has returned 0, /dev, /proc and
\* /sys are still mounted under the new root and the command run last is not
\* an umount.
C27_MountsLeftOnSuccess ==
    /\ [](exit_code = 0 =>
             /\ pc = "done"
             /\ steps[Len(steps)] = [name |-> "configure_system_settings", result |-> "ok"]
             /\ BindTargets(ret[2]) \subseteq host.mounts
             /\ last.fn = "configure_system_settings"
             /\ last.argv[1] # "umount")
    /\ [][ pc = "main.system" =>
              /\ (last'.argv[1] = "umount") = (steps'[Len(steps')].result = "failed")
              /\ steps'[Len(steps')].result = "failed" =>
                    UmountOf(last', "configure_system_settings", "/dev")
              /\ steps'[Len(steps')].result # "failed" =>
                    host.mounts \subseteq host'.mounts
              /\ steps'[Len(steps')].result = "ok" =>
                    host'.mounts = host.mounts \cup BindTargets(ret[2]) ]_vars

\* C27 witness: the installation is complete, main has returned 0, and the
\* three bind mounts are in place.
C27_Witness ==
    /\ exit_code = 0
    /\ out[1] = "System settings configured successfully."
    /\ BindTargets(ret[2]) \subseteq host.mounts

\* configure_system_settings failed on a command and its handler unmounted
\* what the body had mounted.
C27_WitnessFailed ==
    /\ steps[Len(steps)] = [name |-> "configure_system_settings", result |-> "failed"]
    /\ UmountOf(last, "configure_system_settings", "/dev")
    /\ last.ok
    /\ host.mounts \cap BindTargets(ret[2]) = {}

\* C28: configure_pool_options runs zpool set autotrim=on and, whether it
\* succeeded or not, goes on to _create_trim_service_files, which either
\* enables the timer or reports its failure; create_zfs_pool is told True by
\* configure_pool_options exactly when autotrim is on and the timer is
\* enabled, that is when both succeeded.
C28_BothSubStepsAttempted ==
    /\ [](pc = "pool.trim" =>
             /\ IsZpoolSet(last)
             /\ cfg_success = last.ok
             /\ cfg_success = (pool_name \in host.autotrim)
             /\ ~host.trim_timer)
    /\ [][ /\ pc = "pool.autotrim" =>
                 /\ IsZpoolSet(last')
                 /\ last'.fn = "enable_pool_autotrim"
                 /\ pc' = "pool.trim"
                 /\ PoolStepResult' = "running"
           /\ pc = "pool.trim" =>
                 /\ PoolStepResult' # "running"
                 /\ \/ host'.trim_timer /\ last' = Entry("_create_trim_service_files",
                                                         CmdEnableTimer, TRUE)
                    \/ /\ ~host'.trim_timer
                       /\ \E i \in 1..Len(out') :
                             out'[i] = "Error: Failed to create TRIM service files"
                 /\ ret'[1] = (cfg_success /\ host'.trim_timer)
                 /\ ret'[1] = (pool_name \in host'.autotrim /\ host'.trim_timer) ]_vars

\* C28 witness: zpool set failed, the timer was installed and enabled all the
\* same, and the result is False.
C28_Witness ==
    /\ PoolStepResult = "failed"
    /\ host.pools # {}
    /\ host.autotrim = {}
    /\ host.trim_timer
    /\ ~ret[1]

(***************************************************************************)
(* Termination of main (under SpecLive).                                   *)
(***************************************************************************)
\* main has returned, or an exception has left it.
Terminated == pc \in {"done", "crashed"}

\* C29: every run of main in which commands and prompts return ends, with
\* exit code 0 or 1 and none before the end; once ended nothing more happens;
\* the steps invoked are the first steps of main's order, each once, every
\* one but the latest having succeeded; the loops over the disks (wipe_disks
\* and _prepare_disk_partitions) start at the first disk and move to the next
\* one only, never past the last; and the wait loop counts its attempts up
\* to max_retries and no further.
C29_Terminates ==
    /\ <>Terminated
    /\ [](Terminated => exit_code \in {0, 1})
    /\ [](~Terminated => exit_code = NoExit)
    /\ [](/\ Len(steps) <= Len(StepOrder)
          /\ \A i \in 1..Len(steps) :
                /\ steps[i].name = StepOrder[i]
                /\ i < Len(steps) => steps[i].result = "ok")
    /\ [](attempt \in 0..max_retries)
    /\ [][ /\ Terminated => UNCHANGED vars
           /\ Len(steps') \in {Len(steps), Len(steps) + 1}
           /\ (pc' = "wipe.wipefs" /\ pc # pc') =>
                 \/ pc = "select.confirm" /\ idx' = 1
                 \/ pc = "wipe.sync" /\ idx' = idx + 1 /\ idx' <= Len(disks_with_fs)
           /\ (pc' = "prep.wipefs" /\ pc # pc') =>
                 \/ pc = "pool.config" /\ idx' = 1
                 \/ pc = "prep.sync" /\ idx' = idx + 1 /\ idx' <= Len(disks)
           /\ (pc \in {"prep.wipefs", "prep.zap", "prep.new1", "prep.new2",
                       "prep.partprobe", "prep.blockdev"}
                 /\ pc' \notin {"done", "crashed"}) => idx' = idx
           /\ (pc = "prep.poll" /\ pc' = "prep.poll") => attempt' = attempt + 1 ]_vars

\* C29 witness: the installation ran to its end on all the disks of the
\* machine and main returned 0.
C29_Witness ==
    /\ pc = "done"
    /\ exit_code = 0
    /\ Len(steps) = Len(StepOrder)
    /\ Len(disks) = NumDisks

\* A run ended by an exception that nothing caught: exit code 1.
C29_WitnessCrashed ==
    /\ pc = "crashed"
    /\ exit_code = 1
    /\ steps[Len(steps)].result = "raised"

====
